---- MODULE Spec2Model ----
(***************************************************************************)
(* Model of the live Monte Carlo engine of gbm/: the Path Population       *)
(* (simulation/path_manager.py), its filter (live/path_filter.py), the     *)
(* Timeframe Store (data/multi_timeframe.py), the zone detector            *)
(* (simulation/reversal_zones.py) and the Live Updater (live/updater.py).  *)
(*                                                                         *)
(* Numbers.  Prices are integers (price ticks).  A tolerance is an exact   *)
(* fraction [num, den] with den > 0.  Instants are integers counting       *)
(* half-minutes, so that an instant can lie exactly between two grid       *)
(* minutes.  An optional value (Python's None) is a sequence of length 0   *)
(* or 1.                                                                   *)
(***************************************************************************)
EXTENDS Integers, Sequences, FiniteSets, TLC

\* ------------------------------------------------------------------ bounds
\* Largest number of paths of a population in SpecPop.
MaxPaths == 2
\* Number of one-minute steps H of the time grid (forecast_horizon_minutes).
Horizon == 1
\* freq="1min": one grid step, counted in half-minute instants.
MinuteTicks == 2

\* ------------------------------------------------------------------ inputs
\* The anchor price S0 of every path (entry 0) and the prices of later steps.
StartPrices == {100}
StepPrices == {99, 101}
\* Observed prices the Eliminate action is called with: valid ones, zero and
\* a negative one; the theorems quantify over AnyObserved.
ObservedPrices == {0 - 100, 0, 100, 101}
AnyObserved == ObservedPrices \cup {1, 99}
\* Tolerances: 0, 1% and 2% (99 against 100 deviates by exactly 1%).
Tolerances == {[num |-> 0, den |-> 1], [num |-> 1, den |-> 100], [num |-> 2, den |-> 100]}
\* Tolerances the theorems quantify over: the above and a negative one.
AnyTolerances == Tolerances \cup {[num |-> 0 - 1, den |-> 100]}
AnchorTime == 0
LastTime == AnchorTime + Horizon * MinuteTicks
\* Every instant from 2.5 minutes before the grid to 2.5 minutes after it.
Timestamps == (AnchorTime - 2 * MinuteTicks - 1) .. (LastTime + 2 * MinuteTicks + 1)
\* Instants the Eliminate action is called with: 2.5 minutes before the grid,
\* halfway between the first two grid minutes, the last grid instant and 2.5
\* minutes past it.
CallTimes ==
    {AnchorTime - 2 * MinuteTicks - 1, AnchorTime + 1, LastTime,
     LastTime + 2 * MinuteTicks + 1}

None == << >>
Some(x) == << x >>
\* Outcomes of client.get_latest_bar: it raised, or returned None or a bar.
FetchRaised == [raised |-> TRUE, bar |-> None]
Fetched(bar) == [raised |-> FALSE, bar |-> bar]
Abs(x) == IF x < 0 THEN 0 - x ELSE x
\* F(x), with x evaluated once and its value handed to F.
Strict(F(_), x) == CHOOSE y \in {F(v) : v \in {x}} : TRUE
\* The same with the value first: "x, bound to a name, in F".
Bind(x, F(_)) == Strict(F, x)

VARIABLES
    paths,            \* PathManager.paths: path index -> (step -> price)
    time_index,       \* PathManager.time_index: step -> instant
    num_paths,        \* PathManager.num_paths
    active_paths,     \* PathManager.active_paths (the live set L)
    path_metadata,    \* PathManager.path_metadata
    ret,              \* outcome of the last eliminate_paths call
    eliminated_total, \* sum of the counts returned by eliminate_paths so far
    filter_tolerance, \* PathFilter.tolerance
    data,             \* MultiTimeframeManager.data: timeframe -> series of bars
    latest_bars,      \* MultiTimeframeManager.latest_bars: timeframe -> optional bar
    has_callback,     \* whether LiveUpdater.callback is set
    running,          \* LiveUpdater.running
    update_count,     \* LiveUpdater.update_count
    last_update_time, \* LiveUpdater.last_update_time (optional)
    pc,               \* where start() stands: idle, loop, sleep, returned
    clock,            \* the wall clock datetime.now() reads
    result,           \* what the last update() call returned or raised
    source_failed,    \* whether the bar source failed in the last update()
    delivered,        \* update_count of each snapshot handed to the callback
    returned,         \* update_count of each snapshot returned by update()
    stage,            \* thread -> where it stands inside update()
    local,            \* thread -> the local variables of its update() call
    outcome,          \* thread -> how its last update() call ended
    caught,           \* exceptions start() has caught and printed so far
    stop_point,       \* where the loop stood when stop() was last called
    calls,            \* calls of update, eliminate_paths and detect_zones so far
    last_callback,    \* thread -> what the callback did in its last cycle
    args,             \* the parsed command line of the sessions
    history,          \* timeframe -> the bars the source holds for the historical fetch
    session,          \* process -> where main() stands and what it holds
    gen,              \* run -> a PathGenerator and its generate_paths call
    np_random,        \* process -> the state of NumPy's global generator
    gbm               \* the attributes of the GBM object of the traditional mode

popVars == << paths, time_index, num_paths, active_paths, path_metadata, ret,
              eliminated_total >>
liveVars == << filter_tolerance, data, latest_bars, has_callback, running, update_count,
               last_update_time, pc, clock, result, source_failed, delivered,
               returned >>
threadVars == << stage, local, outcome, caught, stop_point, calls, last_callback >>
\* The variables that SpecPop and SpecLive leave alone.
sessVars == << args, history, session, gen, np_random, gbm >>
auxVars == << threadVars, sessVars >>
vars == << popVars, liveVars, auxVars >>

\* Variant with one slip: the grid starts one step after start.
DateRange_from_one(start, periods) ==
    [s \in 0 .. periods - 1 |-> start + (s + 1) * MinuteTicks]

\* ------------------------------------------------------- PathManager (code)
\* pd.date_range(start, periods=num_steps + 1, freq="1min")
DateRange(start, periods) == [s \in 0 .. periods - 1 |-> start + s * MinuteTicks]

\* Index.get_indexer([ts], method="pad")[0]: last position with T[k] <= ts.
PadIndexer(T, ts) ==
    LET le == {k \in DOMAIN T : T[k] <= ts}
    IN IF le = {} THEN 0 - 1 ELSE CHOOSE k \in le : \A j \in le : j <= k

\* Index.get_indexer([ts], method="backfill")[0]: first position with T[k] >= ts.
BackfillIndexer(T, ts) ==
    LET ge == {k \in DOMAIN T : T[k] >= ts}
    IN IF ge = {} THEN 0 - 1 ELSE CHOOSE k \in ge : \A j \in ge : k <= j

\* Variant with one slip: a tolerance of one grid step on the
\* lookup, so that an instant further out finds no position (-1).
NearestIndexer_within_step(T, ts) ==
    LET last == Cardinality(DOMAIN T) - 1
    IN IF ts < T[0] - MinuteTicks \/ ts > T[last] + MinuteTicks THEN 0 - 1
       ELSE IF PadIndexer(T, ts) = 0 - 1 THEN 0
       ELSE IF BackfillIndexer(T, ts) = 0 - 1 THEN last
       ELSE IF ts - T[PadIndexer(T, ts)] < T[BackfillIndexer(T, ts)] - ts
            THEN PadIndexer(T, ts) ELSE BackfillIndexer(T, ts)

\* Index.get_indexer([ts], method="nearest")[0] on a monotonic increasing
\* index: the pad position when it is strictly nearer or there is no backfill
\* position, else the backfill position (a tie goes to the later step).  A
\* position of -1 reads the last entry, as numpy indexing does.
NearestIndexer(T, ts) ==
    LET last == Cardinality(DOMAIN T) - 1
        at(k) == IF k < 0 THEN T[last] ELSE T[k]
        l == PadIndexer(T, ts)
        r == BackfillIndexer(T, ts)
    IN IF Abs(ts - at(l)) < Abs(ts - at(r)) \/ r = 0 - 1 THEN l ELSE r

\* PathManager.get_path_at_time
get_path_at_time(path_index, timestamp) ==
    IF path_index < 0 \/ path_index >= num_paths
    THEN None
    ELSE LET idx == NearestIndexer(time_index, timestamp)
         IN IF idx < 0 \/ idx >= Cardinality(DOMAIN paths[path_index])
            THEN None
            ELSE Some(paths[path_index][idx])

\* Variant with one slip: "deviation >= tolerance".
DeviationExceeds_or_equal(path_price, actual_price, tolerance) ==
    IF actual_price > 0
    THEN Abs(path_price - actual_price) * tolerance.den >= tolerance.num * actual_price
    ELSE Abs(path_price - actual_price) * tolerance.den <= tolerance.num * actual_price

\* deviation = abs(path_price - actual_price) / actual_price; deviation >
\* tolerance, for actual_price # 0, cross-multiplied (dividing by a negative
\* price turns the comparison round).
DeviationExceeds(path_price, actual_price, tolerance) ==
    IF actual_price > 0
    THEN Abs(path_price - actual_price) * tolerance.den > tolerance.num * actual_price
    ELSE Abs(path_price - actual_price) * tolerance.den < tolerance.num * actual_price

\* Variant with one slip: eliminated_at is written for every path the loop
\* examines, kept or not.
EliminateStep_stamps_examined(st, path_idx, actual_price, timestamp, tolerance) ==
    LET path_price == get_path_at_time(path_idx, timestamp)
    IN IF st.raised \/ path_price = None THEN st
       ELSE IF actual_price = 0 THEN [st EXCEPT !.raised = TRUE]
       ELSE IF DeviationExceeds(path_price[1], actual_price, tolerance)
       THEN [st EXCEPT !.paths_to_remove = Append(@, path_idx),
                       !.path_metadata[path_idx] =
                           [eliminated |-> TRUE, eliminated_at |-> Some(timestamp)],
                       !.eliminated_count = @ + 1]
       ELSE [st EXCEPT !.path_metadata[path_idx].eliminated_at = Some(timestamp)]

\* The body of "for path_idx in list(self.active_paths)" for one path.  st
\* carries paths_to_remove, path_metadata, eliminated_count and whether the
\* division has raised ZeroDivisionError (which ends the loop).
EliminateStep(st, path_idx, actual_price, timestamp, tolerance) ==
    LET path_price == get_path_at_time(path_idx, timestamp)
    IN IF st.raised \/ path_price = None THEN st
       ELSE IF actual_price = 0 THEN [st EXCEPT !.raised = TRUE]
       ELSE IF DeviationExceeds(path_price[1], actual_price, tolerance)
       THEN [st EXCEPT !.paths_to_remove = Append(@, path_idx),
                       !.path_metadata[path_idx] =
                           [eliminated |-> TRUE, eliminated_at |-> Some(timestamp)],
                       !.eliminated_count = @ + 1]
       ELSE st

\* The loop over positions lo .. hi of the iteration order, in that order
\* (the range is halved to keep the evaluation shallow).
RECURSIVE EliminateLoop(_, _, _, _, _, _, _)
EliminateLoop(order, lo, hi, st, actual_price, timestamp, tolerance) ==
    LET One(s) == EliminateStep(s, order[lo], actual_price, timestamp, tolerance)
        Rest(s) == EliminateLoop(order, (lo + hi) \div 2 + 1, hi, s,
                                 actual_price, timestamp, tolerance)
    IN IF lo > hi THEN st
       ELSE IF lo = hi THEN Strict(One, st)
       ELSE Strict(Rest, EliminateLoop(order, lo, (lo + hi) \div 2, st,
                                       actual_price, timestamp, tolerance))

\* ---- variants of eliminate_paths with one slip each
\* Whether live path i is beyond the tolerance at the timestamp.
PathExceeds(i, actual_price, timestamp, tolerance) ==
    LET v == get_path_at_time(i, timestamp)
    IN v # None /\ DeviationExceeds(v[1], actual_price, tolerance)

MarkEliminated(meta, out, timestamp) ==
    [i \in DOMAIN meta |->
        IF i \in out THEN [eliminated |-> TRUE, eliminated_at |-> Some(timestamp)]
        ELSE meta[i]]

\* Slip: the live set is rebuilt from all paths, so a dead path within the
\* tolerance of the new price comes back.
eliminate_paths_rebuild(act, meta, actual_price, timestamp, tolerance, order) ==
    LET out == {i \in 0 .. num_paths - 1 :
                    PathExceeds(i, actual_price, timestamp, tolerance)}
    IN [active_paths |-> (0 .. num_paths - 1) \ out,
        path_metadata |-> MarkEliminated(meta, out \cap act, timestamp),
        raised |-> FALSE, count |-> Some(Cardinality(out \cap act))]

\* Slip: ">=" for ">" in the comparison with the tolerance.
eliminate_paths_nonstrict(act, meta, actual_price, timestamp, tolerance, order) ==
    LET out == {i \in act :
                    LET v == get_path_at_time(i, timestamp)
                    IN v # None /\ Abs(v[1] - actual_price) * tolerance.den
                                       >= tolerance.num * actual_price}
    IN [active_paths |-> act \ out,
        path_metadata |-> MarkEliminated(meta, out, timestamp),
        raised |-> FALSE, count |-> Some(Cardinality(out))]

\* Slip: the loop is left after the first path it removes.
eliminate_paths_first_only(act, meta, actual_price, timestamp, tolerance, order) ==
    LET hits == {k \in 1 .. Len(order) :
                    PathExceeds(order[k], actual_price, timestamp, tolerance)}
        out == IF hits = {} THEN {}
               ELSE {order[CHOOSE k \in hits : \A j \in hits : k <= j]}
    IN [active_paths |-> act \ out,
        path_metadata |-> MarkEliminated(meta, out, timestamp),
        raised |-> FALSE, count |-> Some(Cardinality(out))]

\* Slip: the count is taken of the paths examined, not of the paths removed.
eliminate_paths_count_examined(act, meta, actual_price, timestamp, tolerance, order) ==
    LET out == {i \in act : PathExceeds(i, actual_price, timestamp, tolerance)}
    IN [active_paths |-> act \ out,
        path_metadata |-> MarkEliminated(meta, out, timestamp),
        raised |-> FALSE, count |-> Some(Len(order))]

\* PathManager.eliminate_paths on live set act and metadata meta, iterating
\* the live set in the given order.  The result holds the live set and the
\* metadata after the call and either the returned count or raised = TRUE.
eliminate_paths(act, meta, actual_price, timestamp, tolerance, order) ==
    Bind(EliminateLoop(order, 1, Len(order),
                       [paths_to_remove |-> << >>, path_metadata |-> meta,
                        eliminated_count |-> 0, raised |-> FALSE],
                       actual_price, timestamp, tolerance),
         LAMBDA st :
            IF st.raised
            THEN [active_paths |-> act, path_metadata |-> st.path_metadata,
                  raised |-> TRUE, count |-> None]
            ELSE [active_paths |->
                      act \ {st.paths_to_remove[j] : j \in 1 .. Len(st.paths_to_remove)},
                  path_metadata |-> st.path_metadata,
                  raised |-> FALSE, count |-> Some(st.eliminated_count)])

\* list(self.active_paths): some enumeration of the set, in an order the
\* language does not promise.
Orders(S) ==
    {o \in [1 .. Cardinality(S) -> S] : \A a, b \in DOMAIN o : a # b => o[a] # o[b]}

\* PathManager.get_statistics; survival_rate is the fraction num / den.
get_statistics(act) ==
    LET num_active == Cardinality(act)
    IN [num_total |-> num_paths,
        num_active |-> num_active,
        num_eliminated |-> num_paths - num_active,
        survival_rate |-> IF num_paths > 0
                          THEN [num |-> num_active, den |-> num_paths]
                          ELSE [num |-> 0, den |-> 1]]

\* PathManager.__init__
NewMetadata(n) ==
    [i \in 0 .. n - 1 |-> [eliminated |-> FALSE, eliminated_at |-> None]]

\* ------------------------------------------- MultiTimeframeManager (code)
\* MultiTimeframeManager.TIMEFRAMES
TIMEFRAMES == {"1d", "4h", "1h", "15m", "5m", "1m"}

\* A bar as far as the engine reads it: its timestamp and its close.
Bar(ts, close) == [timestamp |-> ts, close |-> close]

\* Variant with one slip: the new row is appended and the index not sorted.
InsertSorted_append(series, bar) == Append(series, bar)

\* pd.concat([series, new_row]) followed by sort_index: the bar is put before
\* the first stored bar with a later timestamp.
RECURSIVE InsertSorted(_, _)
InsertSorted(series, bar) ==
    IF series = << >> THEN << bar >>
    ELSE IF bar.timestamp < Head(series).timestamp THEN << bar >> \o series
    ELSE << Head(series) >> \o InsertSorted(Tail(series), bar)

\* Variant with one slip: a failed fetch leaves the cached latest
\* bar in place.
UpdateTimeframe_keep_cache(series, cached, fetched) ==
    IF fetched.raised \/ fetched.bar = None
    THEN [series |-> series, latest |-> cached]
    ELSE [series |-> series, latest |-> fetched.bar]

\* Variant with one slip: a new bar is appended to an empty series as well.
UpdateTimeframe_fills_empty(series, cached, fetched) ==
    IF fetched.raised
    THEN [series |-> series, latest |-> None]
    ELSE IF fetched.bar # None
            /\ \A k \in 1 .. Len(series) : series[k].timestamp # fetched.bar[1].timestamp
    THEN [series |-> InsertSorted(series, fetched.bar[1]), latest |-> fetched.bar]
    ELSE [series |-> series, latest |-> fetched.bar]

\* One round of the loop of update_latest_bars for one timeframe.  series and
\* cached are data[timeframe] and latest_bars[timeframe]; fetched is what
\* client.get_latest_bar did: FetchRaised, Fetched(None) or
\* Fetched(Some(bar)).  Gives the timeframe's [series, latest] afterwards.
UpdateTimeframe(series, cached, fetched) ==
    IF fetched.raised
    THEN [series |-> series, latest |-> None]
    ELSE IF fetched.bar # None /\ series # << >>
            /\ \A k \in 1 .. Len(series) : series[k].timestamp # fetched.bar[1].timestamp
    THEN [series |-> InsertSorted(series, fetched.bar[1]), latest |-> fetched.bar]
    ELSE [series |-> series, latest |-> fetched.bar]

\* MultiTimeframeManager.update_latest_bars; fetched: timeframe -> outcome.
update_latest_bars(d, latest, fetched) ==
    [data |-> [tf \in TIMEFRAMES |->
                  UpdateTimeframe(d[tf], latest[tf], fetched[tf]).series],
     latest_bars |-> [tf \in TIMEFRAMES |->
                  UpdateTimeframe(d[tf], latest[tf], fetched[tf]).latest]]

\* Variant with one slip: without a cached bar and without a stored one, the
\* anchor price is handed out.
get_latest_close_default(d, latest, timeframe) ==
    IF latest[timeframe] # None THEN Some(latest[timeframe][1].close)
    ELSE IF d[timeframe] # << >> THEN Some(d[timeframe][Len(d[timeframe])].close)
    ELSE Some(100)

\* Variant with one slip: the stored series is asked before the cache.
get_latest_close_stored_first(d, latest, timeframe) ==
    IF d[timeframe] # << >> THEN Some(d[timeframe][Len(d[timeframe])].close)
    ELSE IF latest[timeframe] # None THEN Some(latest[timeframe][1].close)
    ELSE None

\* MultiTimeframeManager.get_latest_close
get_latest_close(d, latest, timeframe) ==
    IF latest[timeframe] # None THEN Some(latest[timeframe][1].close)
    ELSE IF d[timeframe] # << >> THEN Some(d[timeframe][Len(d[timeframe])].close)
    ELSE None

\* --------------------------------------------- ReversalZoneDetector (code)
\* The live set as a list in ascending index order, the one iteration order
\* used where a whole session is modelled.
AscendingOrder(S) ==
    SelectSeq([k \in 1 .. num_paths |-> k - 1], LAMBDA i : i \in S)

\* PathManager.get_all_paths_at_time: the prices of the live paths that have
\* one at the timestamp.
RECURSIVE PricesFrom(_, _, _, _)
PricesFrom(order, lo, hi, timestamp) ==
    IF lo > hi THEN << >>
    ELSE IF lo = hi
    THEN Bind(get_path_at_time(order[lo], timestamp),
              LAMBDA price : IF price # None THEN << price[1] >> ELSE << >>)
    ELSE PricesFrom(order, lo, (lo + hi) \div 2, timestamp)
            \o PricesFrom(order, (lo + hi) \div 2 + 1, hi, timestamp)

get_all_paths_at_time(act, timestamp) ==
    Bind(AscendingOrder(act), LAMBDA order : PricesFrom(order, 1, Len(order), timestamp))

RECURSIVE SumRange(_, _, _)
SumRange(q, lo, hi) ==
    IF lo > hi THEN 0
    ELSE IF lo = hi THEN q[lo]
    ELSE SumRange(q, lo, (lo + hi) \div 2) + SumRange(q, (lo + hi) \div 2 + 1, hi)

SumSeq(q) == SumRange(q, 1, Len(q))

SeqMin(q) == CHOOSE x \in {q[k] : k \in 1 .. Len(q)} : \A k \in 1 .. Len(q) : x <= q[k]
SeqMax(q) == CHOOSE x \in {q[k] : k \in 1 .. Len(q)} : \A k \in 1 .. Len(q) : x >= q[k]

\* The bin of a price: edges are first + b * width in units of
\* 1 / (2 * num_bins) of a price tick; a bin holds its left edge, the last bin
\* its right edge too.
BinOf(price, first, width, num_bins) ==
    IF price * 2 * num_bins = first + num_bins * width THEN num_bins - 1
    ELSE (price * 2 * num_bins - first) \div width

\* The counts of bins b .. num_bins - 1 as a list.
RECURSIVE BinCounts(_, _, _, _, _)
BinCounts(prices, b, first, width, num_bins) ==
    IF b >= num_bins THEN << >>
    ELSE << Cardinality({k \in 1 .. Len(prices) :
                            BinOf(prices[k], first, width, num_bins) = b}) >>
            \o BinCounts(prices, b + 1, first, width, num_bins)

\* np.histogram(prices, bins=num_bins) over [min, max], or over
\* [min - 0.5, max + 0.5] when all prices are equal.  Prices of edges are
\* counted in units of 1 / (2 * num_bins) of a price tick, which makes every
\* edge and every bin midpoint an integer: first is the first edge and width
\* the width of a bin in that unit, hist[b + 1] the count of bin b.
Histogram(prices, num_bins) ==
    Bind(<< SeqMin(prices), SeqMax(prices) >>,
         LAMBDA range :
            Bind([first |-> IF range[1] = range[2]
                            THEN range[1] * 2 * num_bins - num_bins
                            ELSE range[1] * 2 * num_bins,
                  width |-> IF range[1] = range[2] THEN 2
                            ELSE 2 * (range[2] - range[1])],
                 LAMBDA edges :
                    [first |-> edges.first, width |-> edges.width,
                     hist |-> BinCounts(prices, 0, edges.first, edges.width,
                                        num_bins)]))

\* Variant with one slip: a zone goes before the zones of its probability.
\* (Declared with the sort below.)
\* zones.sort(key=lambda x: x["probability"], reverse=True): a stable sort,
\* zones of equal probability keep the order they were appended in.  All
\* probabilities of one list share their denominator.
RECURSIVE InsertByProbability_ties_first(_, _, _)
InsertByProbability_ties_first(sorted, k, zone) ==
    IF k > Len(sorted) THEN Append(sorted, zone)
    ELSE IF zone.probability.num >= sorted[k].probability.num
    THEN SubSeq(sorted, 1, k - 1) \o << zone >> \o SubSeq(sorted, k, Len(sorted))
    ELSE InsertByProbability_ties_first(sorted, k + 1, zone)

RECURSIVE InsertByProbability(_, _, _)
InsertByProbability(sorted, k, zone) ==
    IF k > Len(sorted) THEN Append(sorted, zone)
    ELSE IF zone.probability.num > sorted[k].probability.num
    THEN SubSeq(sorted, 1, k - 1) \o << zone >> \o SubSeq(sorted, k, Len(sorted))
    ELSE InsertByProbability(sorted, k + 1, zone)

RECURSIVE SortByProbability(_, _, _)
SortByProbability(sorted, zones, k) ==
    IF k > Len(zones) THEN sorted
    ELSE Bind(InsertByProbability(sorted, 1, zones[k]),
              LAMBDA longer : SortByProbability(longer, zones, k + 1))

\* max(hist) * 0.3, as the fraction 3 / 10, and the default arguments of
\* detect_zones.
ThresholdNum == 3
ThresholdDen == 10
DefaultNumBins == 50
DefaultMinPaths == 10

\* Variant with one slip: the labels support and resistance are exchanged.
ZoneOf_labels_exchanged(i, h, total, len, num_bins) ==
    Bind([low |-> h.first + i * h.width,
          high |-> h.first + (i + 1) * h.width,
          center |-> (h.first + i * h.width + h.first + (i + 1) * h.width) \div 2],
         LAMBDA zone :
            [price_level |-> zone.center,
             price_low |-> zone.low,
             price_high |-> zone.high,
             probability |-> [num |-> h.hist[i + 1], den |-> len],
             path_count |-> h.hist[i + 1],
             zone_type |-> IF zone.center * len < total * 2 * num_bins
                           THEN "resistance"
                           ELSE IF zone.center * len > total * 2 * num_bins
                           THEN "support"
                           ELSE "convergence"])

\* Variant with one slip: probability is the share of the largest bin.
ZoneOf_of_largest(i, h, total, len, num_bins) ==
    Bind([low |-> h.first + i * h.width,
          high |-> h.first + (i + 1) * h.width,
          center |-> (h.first + i * h.width + h.first + (i + 1) * h.width) \div 2],
         LAMBDA zone :
            [price_level |-> zone.center,
             price_low |-> zone.low,
             price_high |-> zone.high,
             probability |-> [num |-> h.hist[i + 1], den |-> SeqMax(h.hist)],
             path_count |-> h.hist[i + 1],
             zone_type |-> IF zone.center * len < total * 2 * num_bins
                           THEN "support"
                           ELSE IF zone.center * len > total * 2 * num_bins
                           THEN "resistance"
                           ELSE "convergence"])

\* One entry of zones for bin i of histogram h; total is the sum of the prices
\* (bounds["mean"] = total / len(prices)).
ZoneOf(i, h, total, len, num_bins) ==
    Bind([low |-> h.first + i * h.width,
          high |-> h.first + (i + 1) * h.width,
          center |-> (h.first + i * h.width + h.first + (i + 1) * h.width) \div 2],
         LAMBDA zone :
            [price_level |-> zone.center,
             price_low |-> zone.low,
             price_high |-> zone.high,
             probability |-> [num |-> h.hist[i + 1], den |-> len],
             path_count |-> h.hist[i + 1],
             zone_type |-> IF zone.center * len < total * 2 * num_bins
                           THEN "support"
                           ELSE IF zone.center * len > total * 2 * num_bins
                           THEN "resistance"
                           ELSE "convergence"])

\* The loop "for i, count in enumerate(hist)" from bin i on.
\* Variant with one slip: min_paths alone decides, the threshold is left out.
RECURSIVE ZonesFrom_min_paths_only(_, _, _, _, _, _, _)
ZonesFrom_min_paths_only(i, h, top, total, len, num_bins, min_paths) ==
    IF i >= num_bins THEN << >>
    ELSE IF h.hist[i + 1] >= min_paths
    THEN << ZoneOf(i, h, total, len, num_bins) >>
            \o ZonesFrom_min_paths_only(i + 1, h, top, total, len, num_bins, min_paths)
    ELSE ZonesFrom_min_paths_only(i + 1, h, top, total, len, num_bins, min_paths)

RECURSIVE ZonesFrom(_, _, _, _, _, _, _)
ZonesFrom(i, h, top, total, len, num_bins, min_paths) ==
    IF i >= num_bins THEN << >>
    ELSE IF h.hist[i + 1] >= min_paths /\ h.hist[i + 1] * ThresholdDen >= top * ThresholdNum
    THEN << ZoneOf(i, h, total, len, num_bins) >>
            \o ZonesFrom(i + 1, h, top, total, len, num_bins, min_paths)
    ELSE ZonesFrom(i + 1, h, top, total, len, num_bins, min_paths)

\* ReversalZoneDetector.detect_zones(timestamp, num_bins, min_paths) on live
\* set act.  price_level, price_low and price_high are in the unit of
\* Histogram; probability is the fraction num / den.
detect_zones(act, timestamp, num_bins, min_paths) ==
    Bind(get_all_paths_at_time(act, timestamp),
         LAMBDA prices :
            IF Len(prices) < min_paths THEN << >>
            ELSE Bind(<< Histogram(prices, num_bins), SumSeq(prices) >>,
                      LAMBDA ht :
                         Bind(ZonesFrom(0, ht[1],
                                  SeqMax(ht[1].hist),
                                  ht[2], Len(prices), num_bins, min_paths),
                              LAMBDA zones : SortByProbability(<< >>, zones, 1))))

\* ------------------------------------------- caller threads (state)
\* The thread that runs start() and a second thread that calls
\* run_single_update() and stop().
Threads == {"loop", "caller"}

\* The local variables of update() before the call has set any.
NoLocals == [seen |-> 0, now |-> 0, latest_price |-> None, update_info |-> None]

\* No thread is inside update() and none has been.
ThreadsIdle ==
    /\ stage = [t \in Threads |-> "out"]
    /\ local = [t \in Threads |-> NoLocals]
    /\ outcome = [t \in Threads |-> "none"]
    /\ caught = 0
    /\ stop_point = None
    /\ calls = [update |-> 0, eliminate_paths |-> 0, detect_zones |-> 0]
    /\ last_callback = [t \in Threads |-> "none"]

\* The processes of two sessions, and the two generate_paths calls compared.
Procs == {1, 2}
Runs == {1, 2}

\* argparse's defaults for the options the sessions read (num_paths and the
\* horizon at the size of this model).
DefaultArgs == [starting_price |-> "weekly-open", num_paths |-> MaxPaths,
                tolerance |-> [num |-> 1, den |-> 100],
                forecast_horizon_minutes |-> Horizon, forecast_period |-> 252,
                seed |-> Some(20)]

\* main() has not been entered.
NoSession == [phase |-> "main", data |-> [tf \in TIMEFRAMES |-> << >>],
              start_price |-> None, htf_params |-> << >>,
              preferred_tf |-> None, error |-> "none",
              exit_code |-> None,
              tolerance |-> None, paths |-> << >>, time_index |-> << >>,
              cycles |-> 0]

\* No PathGenerator has been constructed.
NoGenerator == [stage |-> "none", proc |-> 1, seed |-> None, starting_price |-> 0,
                mu |-> 0, sigma |-> Some(0), num_steps |-> 0, num_paths |-> 0,
                start_time |-> AnchorTime, paths |-> << >>, time_index |-> << >>]

\* GBM.__init__ with the defaults of the traditional mode: every attribute
\* the methods compute is None.
NoGBM == [forecast_period |-> 0, seed |-> 0, stock_price |-> None, mu |-> None,
          sigma |-> None, So |-> None, S |-> None, x_axis |-> None, W |-> None,
          int_of_history_period |-> None]

\* No session and no generator exist.
SessionsIdle ==
    /\ args = DefaultArgs
    /\ history = [tf \in TIMEFRAMES |-> << >>]
    /\ session = [p \in Procs |-> NoSession]
    /\ gen = [r \in Runs |-> NoGenerator]
    /\ np_random = [p \in Procs |-> None]
    /\ gbm = NoGBM

AuxIdle == ThreadsIdle /\ SessionsIdle

\* ------------------------------------------------- population specification
\* A population as PathGenerator.generate_paths hands it to PathManager: n
\* paths of Horizon + 1 prices, each starting at the anchor price.
GeneratedPaths(n) ==
    {p \in [0 .. n - 1 -> [0 .. Horizon -> StartPrices \cup StepPrices]] :
        \A i \in 0 .. n - 1 :
            /\ p[i][0] \in StartPrices
            /\ \A s \in 1 .. Horizon : p[i][s] \in StepPrices}

InitPop ==
    /\ num_paths \in 1 .. MaxPaths
    /\ paths \in GeneratedPaths(num_paths)
    /\ time_index = DateRange(AnchorTime, Horizon + 1)
    /\ active_paths = 0 .. num_paths - 1
    /\ path_metadata = NewMetadata(num_paths)
    /\ ret = [raised |-> FALSE, count |-> None]
    /\ eliminated_total = 0
    /\ filter_tolerance = [num |-> 1, den |-> 100]
    /\ data = [tf \in TIMEFRAMES |-> << >>]
    /\ latest_bars = [tf \in TIMEFRAMES |-> None]
    /\ has_callback = FALSE
    /\ running = FALSE
    /\ update_count = 0
    /\ last_update_time = None
    /\ pc = "idle"
    /\ clock = AnchorTime
    /\ result = [status |-> "none", info |-> None]
    /\ source_failed = FALSE
    /\ delivered = << >>
    /\ returned = << >>
    /\ AuxIdle

\* One call of eliminate_paths(actual_price, timestamp, tolerance).
Eliminate ==
    \E actual_price \in ObservedPrices, timestamp \in CallTimes,
       tolerance \in Tolerances, order \in Orders(active_paths) :
        LET r == eliminate_paths(active_paths, path_metadata, actual_price,
                                 timestamp, tolerance, order)
        IN /\ active_paths' = r.active_paths
           /\ path_metadata' = r.path_metadata
           /\ ret' = [raised |-> r.raised, count |-> r.count]
           /\ eliminated_total' =
                  IF r.raised THEN eliminated_total ELSE eliminated_total + r.count[1]
           /\ UNCHANGED << paths, time_index, num_paths, liveVars, auxVars >>

NextPop == Eliminate

SpecPop == InitPop /\ [][NextPop]_vars

\* ------------------------------------------------------ LiveUpdater (code)
\* Largest number of update cycles of a session in SpecLive.
MaxCycles == 3

\* zones[:5]
TopZoneCount == 5
TopZones(zones) == SubSeq(zones, 1, IF Len(zones) < TopZoneCount THEN Len(zones) ELSE TopZoneCount)

\* Variant with one slip: the counter is not advanced.
NextUpdateCount_same(count) == count

\* Variant with one slip: the counter is advanced twice in a cycle.
NextUpdateCount_twice(count) == count + 2

\* self.update_count += 1
NextUpdateCount(count) == count + 1

\* Variant with one slip: the statistics are those of the live set
\* before this cycle's filter_paths call.
CycleStatistics_stale(after) == get_statistics(active_paths)

\* stats = self.path_manager.get_statistics(), read after filter_paths has
\* left the live set `after`.
CycleStatistics(after) == get_statistics(after)

\* The bar source in one cycle, the same for every timeframe: the fetch
\* raises, the client returns None (it swallowed the error), or it returns
\* the bar of the current minute with the given close.
LiveCloses == {0, 101, 104}
BarTime(now) == now - (now % MinuteTicks)
SourceOutcomes(now) ==
    {FetchRaised, Fetched(None)} \cup {Fetched(Some(Bar(BarTime(now), c))) : c \in LiveCloses}
SourceFailed(fetched) == fetched.raised \/ fetched.bar = None

\* What the callback does with a snapshot: return, raise an Exception, or
\* call stop() on the updater and return.
CallbackOutcomes == IF has_callback THEN {"return", "raise", "stop"} ELSE {"absent"}

\* LiveUpdater.update, one whole cycle at wall-clock instant now: every
\* variable it can write except pc and clock, which belong to the caller.
update(now, fetched) ==
    \E store \in {update_latest_bars(data, latest_bars, [tf \in TIMEFRAMES |-> fetched])} :
    \E latest_price \in {get_latest_close(store.data, store.latest_bars, "1m")} :
       /\ update_count' = NextUpdateCount(update_count)
       /\ data' = store.data
       /\ latest_bars' = store.latest_bars
       /\ source_failed' = SourceFailed(fetched)
       /\ UNCHANGED << paths, time_index, num_paths, filter_tolerance, has_callback,
                       auxVars >>
       /\ IF latest_price = None
          THEN \* return {"status": "no_data"}
               /\ result' = [status |-> "no_data", info |-> None]
               /\ UNCHANGED << active_paths, path_metadata, ret, eliminated_total,
                               last_update_time, delivered, returned, running >>
          ELSE
          \E r \in {eliminate_paths(active_paths, path_metadata, latest_price[1], now,
                                    filter_tolerance, AscendingOrder(active_paths))} :
            IF r.raised
            THEN \* ZeroDivisionError leaves update() from filter_paths
               /\ result' = [status |-> "raised", info |-> None]
               /\ active_paths' = r.active_paths
               /\ path_metadata' = r.path_metadata
               /\ ret' = [raised |-> TRUE, count |-> None]
               /\ UNCHANGED << eliminated_total, last_update_time, delivered,
                               returned, running >>
            ELSE
            \E stats \in {CycleStatistics(r.active_paths)},
               survival_rate \in {get_statistics(r.active_paths).survival_rate},
               zones \in {detect_zones(r.active_paths, now, DefaultNumBins, DefaultMinPaths)},
               callback \in CallbackOutcomes :
               LET update_info == [update_count |-> update_count',
                                   timestamp |-> now,
                                   latest_price |-> latest_price[1],
                                   paths_eliminated |-> r.count[1],
                                   paths_active |-> stats.num_active,
                                   paths_total |-> stats.num_total,
                                   survival_rate |-> survival_rate,
                                   reversal_zones |-> TopZones(zones)]
               IN /\ active_paths' = r.active_paths
                  /\ path_metadata' = r.path_metadata
                  /\ ret' = [raised |-> FALSE, count |-> r.count]
                  /\ eliminated_total' = eliminated_total + r.count[1]
                  /\ last_update_time' = Some(now)
                  /\ delivered' = IF has_callback
                                  THEN Append(delivered, update_info.update_count)
                                  ELSE delivered
                  /\ running' = IF callback = "stop" THEN FALSE ELSE running
                  /\ returned' = Append(returned, update_info.update_count)
                  /\ result' = [status |-> "ok", info |-> Some(update_info)]

\* The population of a session: clusters of paths that leave the anchor price
\* 100 by a fixed offset per step, ClusterSizes[c] paths with ClusterOffsets[c].
ClusterOffsets == << 0 - 4, 0 - 2, 0, 2, 4, 6, 10 >>
ClusterSizes == << 10, 11, 15, 14, 13, 12, 3 >>
ClusterOf(i) ==
    CHOOSE c \in 1 .. Len(ClusterSizes) :
        /\ i < SumSeq(SubSeq(ClusterSizes, 1, c))
        /\ i >= SumSeq(SubSeq(ClusterSizes, 1, c - 1))
ClusteredPaths ==
    [i \in 0 .. SumSeq(ClusterSizes) - 1 |->
        [s \in 0 .. Horizon |-> 100 + s * ClusterOffsets[ClusterOf(i)]]]
LiveTolerance == [num |-> 5, den |-> 100]

\* The state run_live_mode hands to LiveUpdater.start.
InitLive ==
    /\ num_paths = SumSeq(ClusterSizes)
    /\ paths = ClusteredPaths
    /\ time_index = DateRange(AnchorTime, Horizon + 1)
    /\ active_paths = 0 .. num_paths - 1
    /\ path_metadata = NewMetadata(num_paths)
    /\ ret = [raised |-> FALSE, count |-> None]
    /\ eliminated_total = 0
    /\ filter_tolerance = LiveTolerance
    /\ data \in {[tf \in TIMEFRAMES |-> << >>],
                 [tf \in TIMEFRAMES |-> << Bar(AnchorTime - MinuteTicks, 100) >>]}
    /\ latest_bars = [tf \in TIMEFRAMES |-> None]
    /\ has_callback \in BOOLEAN
    /\ running = FALSE
    /\ update_count = 0
    /\ last_update_time = None
    /\ pc = "idle"
    /\ clock = AnchorTime + 1
    /\ result = [status |-> "none", info |-> None]
    /\ source_failed = FALSE
    /\ delivered = << >>
    /\ returned = << >>
    /\ AuxIdle

\* LiveUpdater.start up to the loop.
Start ==
    /\ pc \in {"idle", "returned"}
    /\ running' = TRUE
    /\ pc' = "loop"
    /\ UNCHANGED << auxVars, popVars, filter_tolerance, data, latest_bars, has_callback,
                    update_count, last_update_time, clock, result, source_failed,
                    delivered, returned >>

\* One round of "while self.running": update(), whose Exception the loop
\* catches and prints, then time.sleep.
LoopUpdate ==
    /\ pc = "loop" /\ running
    /\ update_count < MaxCycles
    /\ \E fetched \in SourceOutcomes(clock) : update(clock, fetched)
    /\ pc' = "sleep"
    /\ clock' = clock

\* time.sleep(self.update_interval_seconds) returns, a minute later.
Wake ==
    /\ pc = "sleep"
    /\ pc' = "loop"
    /\ clock' = clock + MinuteTicks
    /\ UNCHANGED << auxVars, popVars, filter_tolerance, data, latest_bars, has_callback,
                    running, update_count, last_update_time, result,
                    source_failed, delivered, returned >>

\* "while self.running" finds the flag cleared: start() returns.
LoopExit ==
    /\ pc = "loop" /\ ~running
    /\ pc' = "returned"
    /\ UNCHANGED << auxVars, popVars, filter_tolerance, data, latest_bars, has_callback,
                    running, update_count, last_update_time, clock, result,
                    source_failed, delivered, returned >>

\* LiveUpdater.stop, called from outside the loop's thread.
Stop ==
    /\ running
    /\ running' = FALSE
    /\ UNCHANGED << auxVars, popVars, filter_tolerance, data, latest_bars, has_callback,
                    update_count, last_update_time, pc, clock, result,
                    source_failed, delivered, returned >>

\* LiveUpdater.run_single_update while no loop runs; the next call comes a
\* minute later.
RunSingleUpdate ==
    /\ pc \in {"idle", "returned"}
    /\ update_count < MaxCycles
    /\ \E fetched \in SourceOutcomes(clock) : update(clock, fetched)
    /\ pc' = pc
    /\ clock' = clock + MinuteTicks

NextLive == Start \/ LoopUpdate \/ Wake \/ LoopExit \/ Stop \/ RunSingleUpdate

SpecLive == InitLive /\ [][NextLive]_vars

\* ===================================================== claims, population
AllPaths == 0 .. num_paths - 1
LastStep == Cardinality(DOMAIN time_index) - 1
PositiveObserved == {a \in AnyObserved : a > 0}

\* The grid step nearest to ts, the later one of two equally near steps.
NearestStep(ts) ==
    CHOOSE s \in DOMAIN time_index :
        \A k \in DOMAIN time_index :
            \/ Abs(time_index[s] - ts) < Abs(time_index[k] - ts)
            \/ Abs(time_index[s] - ts) = Abs(time_index[k] - ts) /\ k <= s

\* Paths of the set act whose relative deviation from observed at step s is
\* strictly greater than the tolerance (observed > 0).
Deviating(act, s, observed, tolerance) ==
    {i \in act : Abs(paths[i][s] - observed) * tolerance.den > tolerance.num * observed}

\* C1: the live set only shrinks: every step leaves the live set a subset of
\* what it was, so a path once removed never returns and the live count never
\* grows.
C1_LiveSetShrinks == [][active_paths' \subseteq active_paths]_vars

\* C1 witness: a call has removed a path and a later call has run on the
\* shrunken, still non-empty live set without removing anything.
C1_Witness ==
    /\ active_paths # {} /\ active_paths # AllPaths
    /\ ret.count = Some(0)

\* C2: with observed > 0, eliminate removes exactly the live paths whose
\* relative deviation at the step nearest to ts is strictly greater than the
\* tolerance, and returns their number, whatever the order in which the live
\* set is iterated; a live path whose value at ts equals observed stays for
\* every tolerance >= 0.
C2_ExactRemoval ==
    \A observed \in PositiveObserved, ts \in Timestamps, tolerance \in AnyTolerances,
       order \in Orders(active_paths) :
        LET r == eliminate_paths(active_paths, path_metadata, observed, ts,
                                 tolerance, order)
            out == Deviating(active_paths, NearestStep(ts), observed, tolerance)
        IN /\ ~r.raised
           /\ r.active_paths = active_paths \ out
           /\ r.count = Some(Cardinality(out))
           /\ \A i \in active_paths :
                  (paths[i][NearestStep(ts)] = observed /\ tolerance.num >= 0)
                      => i \in r.active_paths

\* C2 witness: a call removed one path and kept another, in a population
\* whose two paths differ.
C2_Witness ==
    /\ ret.count = Some(1)
    /\ Cardinality(active_paths) >= 1
    /\ \E i \in active_paths, j \in AllPaths \ active_paths : paths[i] # paths[j]

\* C3: elimination is idempotent: a second call with the same arguments,
\* right after the first, leaves the live set and the records as the first
\* call left them, and returns 0 whenever the first call returned a count.
C3_Idempotent ==
    \A observed \in ObservedPrices, ts \in CallTimes, tolerance \in Tolerances,
       o1 \in Orders(active_paths) :
        LET r1 == eliminate_paths(active_paths, path_metadata, observed, ts,
                                  tolerance, o1)
        IN \A o2 \in Orders(r1.active_paths) :
               LET r2 == eliminate_paths(r1.active_paths, r1.path_metadata,
                                         observed, ts, tolerance, o2)
               IN /\ r2.active_paths = r1.active_paths
                  /\ r2.path_metadata = r1.path_metadata
                  /\ r2.raised = r1.raised
                  /\ ~r1.raised => r2.count = Some(0)

\* C3 witness: a state in which some call removes two paths at once (so the
\* repeated call has something it could wrongly remove or count again), after
\* an earlier call has already acted.
C3_Witness ==
    /\ ret.count # None
    /\ \E observed \in ObservedPrices, ts \in CallTimes, tolerance \in Tolerances :
           Cardinality(Deviating(active_paths, NearestStep(ts), observed, tolerance)) >= 2
              /\ observed > 0

\* C4: live count + cumulative eliminated count = total, and get_statistics
\* reports total = N, live = |L|, dead = N - |L|, survival_rate = live/total.
C4_Conservation ==
    LET stats == get_statistics(active_paths)
    IN /\ Cardinality(active_paths) + eliminated_total = num_paths
       /\ stats.num_total = num_paths
       /\ stats.num_active = Cardinality(active_paths)
       /\ stats.num_eliminated = num_paths - Cardinality(active_paths)
       /\ stats.survival_rate.num * num_paths
              = Cardinality(active_paths) * stats.survival_rate.den

\* C4 witness: counts returned by two separate calls add up to one path dead
\* and then another.
C4_Witness ==
    /\ eliminated_total = 2 /\ ret.count = Some(1)

\* C6 (as claimed): every call with observed <= 0 fails with an error.
C6_NonPositiveRaises ==
    \A observed \in {a \in AnyObserved : a <= 0}, ts \in CallTimes,
       tolerance \in Tolerances, order \in Orders(active_paths) :
        eliminate_paths(active_paths, path_metadata, observed, ts, tolerance,
                        order).raised

\* C7 (as claimed): value_at(i, ts) is the price at the step nearest to ts,
\* and nothing when ts lies outside the grid by more than one step.
C7_ValueAt ==
    \A i \in AllPaths, ts \in Timestamps :
        get_path_at_time(i, ts) =
            IF ts < time_index[0] - MinuteTicks \/ ts > time_index[LastStep] + MinuteTicks
            THEN None
            ELSE Some(paths[i][NearestStep(ts)])

CycleRan == update_count' # update_count

\* The close of the last bar of the stored one-minute series.
LastStoredClose == data["1m"][Len(data["1m"])].close

C9_EmittedInOrder ==
    /\ \A k \in 1 .. Len(returned) - 1 : returned[k] < returned[k + 1]
    /\ \A k \in 1 .. Len(delivered) - 1 : delivered[k] < delivered[k + 1]
    /\ \A k \in 1 .. Len(returned) : returned[k] \in 1 .. update_count
    /\ delivered = IF has_callback THEN returned ELSE << >>
    /\ result.status = "ok" =>
          /\ result.info[1].update_count = update_count
          /\ returned[Len(returned)] = update_count

\* C9 witness: the callback has been handed two snapshots, with a cycle that
\* emitted no data snapshot between theirs.
C9_Witness ==
    /\ Len(delivered) >= 2
    /\ delivered[2] > delivered[1] + 1
    /\ returned = delivered

\* C10: a data snapshot agrees with the population as its own cycle's
\* eliminate call left it: paths_eliminated is the count that call returned,
\* paths_active the size of the live set, paths_total N, survival_rate
\* paths_active / paths_total within [0, 1], and reversal_zones at most 5 of
\* the zones detected on that live set at the snapshot's timestamp, none of
\* the zones left out having a higher probability than one that is in.
C10_SnapshotConsistent ==
    result.status = "ok" =>
        \A info \in {result.info[1]} :
        \A zones \in {detect_zones(active_paths, info.timestamp,
                                   DefaultNumBins, DefaultMinPaths)} :
            /\ info.paths_eliminated = ret.count[1]
            /\ info.paths_active = Cardinality(active_paths)
            /\ info.paths_active + eliminated_total = num_paths
            /\ info.paths_total = num_paths
            /\ info.survival_rate.den > 0
            /\ info.survival_rate.num * info.paths_total
                   = info.paths_active * info.survival_rate.den
            /\ 0 <= info.survival_rate.num
            /\ info.survival_rate.num <= info.survival_rate.den
            /\ Len(info.reversal_zones) <= 5
            /\ Len(info.reversal_zones) = IF Len(zones) < 5 THEN Len(zones) ELSE 5
            /\ \A k \in 1 .. Len(info.reversal_zones) :
                   /\ \E j \in 1 .. Len(zones) : zones[j] = info.reversal_zones[k]
                   /\ \A j \in 1 .. Len(zones) :
                          (\A m \in 1 .. Len(info.reversal_zones) :
                               info.reversal_zones[m] # zones[j])
                          => zones[j].probability.num
                                 <= info.reversal_zones[k].probability.num

\* C10 witness: a data snapshot of a cycle that eliminated paths, taken when
\* more than 5 zones were detected on the live set that was left.
C10_Witness ==
    /\ result.status = "ok"
    /\ result.info[1].paths_eliminated > 0
    /\ Len(result.info[1].reversal_zones) = 5
    /\ Len(detect_zones(active_paths, result.info[1].timestamp,
                        DefaultNumBins, DefaultMinPaths)) > 5

\* ============================================== LiveUpdater, step by step
\* The same updater with update() taken in the steps at which another thread
\* can run in between, for the thread in start() and a second caller.
\* Closes the bar source hands out, and what it does in one cycle.
ThreadCloses == {0, 101}
\* Largest number of update() calls, of both threads together, in SpecThreads.
MaxCalls == 2
ThreadOutcomes(now) ==
    {FetchRaised, Fetched(None)}
        \cup {Fetched(Some(Bar(BarTime(now), c))) : c \in ThreadCloses}

\* The population: path i leaves 100 by one tick a step, up for even i and
\* down for odd i.
ThreadPaths ==
    [i \in 0 .. MaxPaths - 1 |->
        [s \in 0 .. Horizon |-> IF i % 2 = 0 THEN 100 + s ELSE 100 - s]]

InitThreads ==
    /\ num_paths = MaxPaths
    /\ paths = ThreadPaths
    /\ time_index = DateRange(AnchorTime, Horizon + 1)
    /\ active_paths = 0 .. num_paths - 1
    /\ path_metadata = NewMetadata(num_paths)
    /\ ret = [raised |-> FALSE, count |-> None]
    /\ eliminated_total = 0
    /\ filter_tolerance = [num |-> 1, den |-> 100]
    /\ data = [tf \in TIMEFRAMES |-> << >>]
    /\ latest_bars = [tf \in TIMEFRAMES |-> None]
    /\ has_callback \in BOOLEAN
    /\ running = FALSE
    /\ update_count = 0
    /\ last_update_time = None
    /\ pc = "idle"
    /\ clock = AnchorTime + 1
    /\ result = [status |-> "none", info |-> None]
    /\ source_failed = FALSE
    /\ delivered = << >>
    /\ returned = << >>
    /\ AuxIdle

\* Variant with one slip: the loop goes on whatever the flag says.
LoopTest_always(flag) == TRUE

\* "while self.running"
LoopTest(flag) == flag

\* Variant with one slip: the handler of "except Exception" does not sleep.
LoopAfterUpdate_no_sleep_on_error(kind) == IF kind = "raised" THEN "loop" ELSE "sleep"

\* Variant with one slip: an exception of update() leaves start().
LoopAfterUpdate_propagates(kind) == IF kind = "raised" THEN "returned" ELSE "sleep"

\* Where start() goes when update() has returned or raised: time.sleep, in
\* the try block and in "except Exception" alike.
LoopAfterUpdate(kind) == "sleep"

\* Variant with one slip: an exception of the callback leaves update().
AfterCallback_propagates(cb) == IF cb = "raise" THEN "raised" ELSE "ok"

\* How update() ends after the callback did cb: "except Exception" around the
\* call prints the error, and update_info is returned.
AfterCallback(cb) == "ok"

\* Where the loop stands, as stop() finds it.
LoopPoint == [pc |-> pc, stage |-> stage["loop"]]

\* update() of thread t returns or raises (kind): back in the caller.
Finish(t, kind) ==
    /\ stage' = [stage EXCEPT ![t] = "out"]
    /\ local' = [local EXCEPT ![t] = NoLocals]
    /\ outcome' = [outcome EXCEPT ![t] = kind]
    /\ IF t = "loop"
       THEN /\ pc' = LoopAfterUpdate(kind)
            /\ caught' = IF kind = "raised" THEN caught + 1 ELSE caught
       ELSE UNCHANGED << pc, caught >>

\* update() is entered: self.update_count is read for "+= 1".
Enter(t) ==
    /\ stage[t] = "out"
    /\ calls.update < MaxCalls
    /\ stage' = [stage EXCEPT ![t] = "count"]
    /\ local' = [local EXCEPT ![t] = [NoLocals EXCEPT !.seen = update_count]]
    /\ calls' = [calls EXCEPT !.update = @ + 1]
    /\ UNCHANGED sessVars
    /\ UNCHANGED << popVars, filter_tolerance, data, latest_bars, has_callback,
                    running, update_count, last_update_time, clock, result,
                    source_failed, delivered, returned, outcome, caught,
                    stop_point, last_callback >>

\* "while self.running" holds and the loop calls update().
LoopEnter ==
    /\ pc = "loop" /\ LoopTest(running)
    /\ Enter("loop")
    /\ pc' = "cycle"

\* The second thread calls run_single_update().
CallerEnter ==
    /\ Enter("caller")
    /\ pc' = pc

\* self.update_count is written; current_time = datetime.now().
Count(t) ==
    /\ stage[t] = "count"
    /\ update_count' = local[t].seen + 1
    /\ stage' = [stage EXCEPT ![t] = "fetch"]
    /\ local' = [local EXCEPT ![t].now = clock]
    /\ UNCHANGED sessVars
    /\ UNCHANGED << popVars, filter_tolerance, data, latest_bars, has_callback,
                    running, last_update_time, pc, clock, result, source_failed,
                    delivered, returned, outcome, caught, stop_point, calls,
                    last_callback >>

\* update_latest_bars() and get_latest_close("1m"); without a price the call
\* returns {"status": "no_data"}.
Fetch(t) ==
    /\ stage[t] = "fetch"
    /\ \E fetched \in ThreadOutcomes(clock) :
       \E store \in {update_latest_bars(data, latest_bars,
                                        [tf \in TIMEFRAMES |-> fetched])} :
       \E latest_price \in {get_latest_close(store.data, store.latest_bars, "1m")} :
          /\ data' = store.data
          /\ latest_bars' = store.latest_bars
          /\ source_failed' = SourceFailed(fetched)
          /\ IF latest_price = None
             THEN /\ Finish(t, "no_data")
                  /\ result' = [status |-> "no_data", info |-> None]
             ELSE /\ stage' = [stage EXCEPT ![t] = "filter"]
                  /\ local' = [local EXCEPT ![t].latest_price = latest_price]
                  /\ UNCHANGED << pc, caught, outcome, result >>
    /\ UNCHANGED sessVars
    /\ UNCHANGED << popVars, filter_tolerance, has_callback, running, update_count,
                    last_update_time, clock, delivered, returned, stop_point,
                    calls, last_callback >>

\* filter_paths, get_statistics, detect_zones, update_info and
\* last_update_time; an exception of eliminate_paths leaves update().
Filter(t) ==
    /\ stage[t] = "filter"
    /\ \E r \in {eliminate_paths(active_paths, path_metadata,
                                 local[t].latest_price[1], local[t].now,
                                 filter_tolerance, AscendingOrder(active_paths))} :
          /\ active_paths' = r.active_paths
          /\ path_metadata' = r.path_metadata
          /\ ret' = [raised |-> r.raised, count |-> r.count]
          /\ IF r.raised
             THEN /\ Finish(t, "raised")
                  /\ result' = [status |-> "raised", info |-> None]
                  /\ calls' = [calls EXCEPT !.eliminate_paths = @ + 1]
                  /\ UNCHANGED << eliminated_total, last_update_time >>
             ELSE \E stats \in {CycleStatistics(r.active_paths)},
                     zones \in {detect_zones(r.active_paths, local[t].now,
                                             DefaultNumBins, DefaultMinPaths)} :
                  /\ eliminated_total' = eliminated_total + r.count[1]
                  /\ last_update_time' = Some(local[t].now)
                  /\ calls' = [calls EXCEPT !.eliminate_paths = @ + 1,
                                            !.detect_zones = @ + 1]
                  /\ stage' = [stage EXCEPT ![t] = "callback"]
                  /\ local' = [local EXCEPT ![t].update_info =
                        Some([update_count |-> update_count,
                              timestamp |-> local[t].now,
                              latest_price |-> local[t].latest_price[1],
                              paths_eliminated |-> r.count[1],
                              paths_active |-> stats.num_active,
                              paths_total |-> stats.num_total,
                              survival_rate |-> stats.survival_rate,
                              reversal_zones |-> TopZones(zones)])]
                  /\ UNCHANGED << pc, caught, outcome, result >>
    /\ UNCHANGED sessVars
    /\ UNCHANGED << paths, time_index, num_paths, filter_tolerance, data,
                    latest_bars, has_callback, running, update_count, clock,
                    source_failed, delivered, returned, stop_point, last_callback >>

\* The callback, if one is set, is handed update_info and returns, raises or
\* calls stop(); then update() returns update_info.
Callback(t) ==
    /\ stage[t] = "callback"
    /\ \E cb \in CallbackOutcomes :
          /\ last_callback' = [last_callback EXCEPT ![t] = cb]
          /\ delivered' = IF has_callback
                          THEN Append(delivered, local[t].update_info[1].update_count)
                          ELSE delivered
          /\ running' = IF cb = "stop" THEN FALSE ELSE running
          /\ stop_point' = IF cb = "stop" THEN Some(LoopPoint) ELSE stop_point
          /\ Finish(t, AfterCallback(cb))
          /\ IF AfterCallback(cb) = "ok"
             THEN /\ returned' = Append(returned, local[t].update_info[1].update_count)
                  /\ result' = [status |-> "ok", info |-> local[t].update_info]
             ELSE /\ returned' = returned
                  /\ result' = [status |-> "raised", info |-> None]
    /\ UNCHANGED sessVars
    /\ UNCHANGED << popVars, filter_tolerance, data, latest_bars, has_callback,
                    update_count, last_update_time, clock, source_failed, calls >>

\* One step of update() in either thread.
Step == \E t \in Threads : Count(t) \/ Fetch(t) \/ Filter(t) \/ Callback(t)

\* "while self.running" fails: start() returns.
ThreadLoopExit ==
    /\ pc = "loop" /\ ~LoopTest(running)
    /\ pc' = "returned"
    /\ UNCHANGED << auxVars, popVars, filter_tolerance, data, latest_bars,
                    has_callback, running, update_count, last_update_time, clock,
                    result, source_failed, delivered, returned >>

\* The second thread calls stop() on the running updater.
ThreadStop ==
    /\ running /\ stage["caller"] = "out"
    /\ running' = FALSE
    /\ stop_point' = Some(LoopPoint)
    /\ UNCHANGED sessVars
    /\ UNCHANGED << popVars, filter_tolerance, data, latest_bars, has_callback,
                    update_count, last_update_time, pc, clock, result,
                    source_failed, delivered, returned, stage, local, outcome,
                    caught, calls, last_callback >>

\* LiveUpdater.start up to the loop, called once in a session.
ThreadStart ==
    /\ pc = "idle"
    /\ running' = TRUE
    /\ pc' = "loop"
    /\ UNCHANGED << auxVars, popVars, filter_tolerance, data, latest_bars,
                    has_callback, update_count, last_update_time, clock, result,
                    source_failed, delivered, returned >>

\* What the thread in start() can do.
LoopThread ==
    ThreadStart \/ LoopEnter \/ Wake \/ ThreadLoopExit
        \/ Count("loop") \/ Fetch("loop") \/ Filter("loop") \/ Callback("loop")

NextThreads == ThreadStart \/ LoopEnter \/ CallerEnter \/ Step \/ Wake \/ ThreadLoopExit \/ ThreadStop

SpecThreads == InitThreads /\ [][NextThreads]_vars

\* The thread in start() keeps going: it is scheduled, its I/O and the
\* callback return, and time.sleep ends.
SpecThreadsFair == SpecThreads /\ WF_vars(LoopThread)

\* ======================================================== claims, threads
\* stop() has been called and start() has not returned yet.
StopRequested == ~running /\ pc \in {"loop", "cycle", "sleep"}

C12_OneCycleAtATime == Cardinality({t \in Threads : stage[t] # "out"}) <= 1

\* update() of thread t ends in this step.
Ends(t) == stage[t] # "out" /\ stage'[t] = "out"

\* C13: an exception that leaves update() in the loop (steps 2-6 of a cycle)
\* is caught by start(): the loop goes to its sleep with the flag untouched,
\* the sleep ends at the loop test, and with the flag still set the next cycle
\* begins there, after one failing cycle as after several in a row.
C13_LoopCatches ==
    /\ [][(Ends("loop") /\ outcome'["loop"] = "raised") =>
              /\ pc' = "sleep"
              /\ running' = running
              /\ caught' = caught + 1]_vars
    /\ (pc = "sleep") ~> (pc = "loop")
    /\ (pc = "loop" /\ running /\ calls.update < MaxCalls)
           ~> (pc = "cycle" \/ ~running \/ calls.update >= MaxCalls)

\* C13 witness: the loop, alone in the session, has caught the exception of a
\* cycle and is inside the next cycle, the flag still set.
C13_Witness ==
    /\ caught >= 1 /\ pc = "cycle" /\ running
    /\ calls.update >= 2 /\ outcome["caller"] = "none" /\ stage["caller"] = "out"

\* C14 (as claimed): a cycle of the loop whose latest close is <= 0 ends with
\* an error that leaves start().
C14_InvalidInputPropagates ==
    [][(stage["loop"] = "filter" /\ local["loop"].latest_price[1] <= 0
           /\ stage'["loop"] # "filter") =>
          /\ outcome'["loop"] = "raised"
          /\ pc' = "returned"]_vars

\* C15: when the callback raises, update() still returns its snapshot (to the
\* loop and to a direct caller alike), the population, the store and the flag
\* are as the snapshot's elimination left them, exactly as when the callback
\* returns, and the loop goes on to its sleep with nothing caught.
C15_CallbackErrorAbsorbed ==
    [][\A t \in Threads :
          (Ends(t) /\ stage[t] = "callback" /\ last_callback'[t] = "raise") =>
              /\ outcome'[t] = "ok"
              /\ result' = [status |-> "ok", info |-> local[t].update_info]
              /\ returned' = Append(returned, local[t].update_info[1].update_count)
              /\ popVars' = popVars
              /\ data' = data /\ latest_bars' = latest_bars
              /\ running' = running
              /\ caught' = caught
              /\ t = "loop" => pc' = "sleep"]_vars

\* C15 witness: the callback raised in a cycle of the loop that had eliminated
\* a path; the loop, alone in the session and still running, is inside its
\* next cycle.
C15_Witness ==
    /\ last_callback["loop"] = "raise" /\ outcome["loop"] = "ok"
    /\ pc = "cycle" /\ running /\ caught = 0
    /\ eliminated_total > 0 /\ outcome["caller"] = "none"

\* C16: a cycle that finds neither a cached bar nor a stored one after the
\* fetch returns the no-data result there and then: eliminate_paths and
\* detect_zones are not called, the population, its records and
\* last_update_time are untouched, and nothing is emitted.
C16_NoDataCycle ==
    [][\A t \in Threads :
          (stage[t] = "fetch" /\ stage'[t] # "fetch"
              /\ latest_bars'["1m"] = None /\ data'["1m"] = << >>) =>
              /\ stage'[t] = "out"
              /\ outcome'[t] = "no_data"
              /\ result' = [status |-> "no_data", info |-> None]
              /\ calls' = calls
              /\ popVars' = popVars
              /\ last_update_time' = last_update_time
              /\ returned' = returned /\ delivered' = delivered]_vars

\* C16 witness: the loop's second cycle found no price, after a first cycle
\* that eliminated a path: one eliminate_paths call in two cycles.
C16_Witness ==
    /\ outcome["loop"] = "no_data" /\ outcome["caller"] = "none"
    /\ calls = [update |-> 2, eliminate_paths |-> 1, detect_zones |-> 1]
    /\ eliminated_total > 0 /\ active_paths # {}
    /\ stage["loop"] = "out"

\* ------------------------------------------------- PathGenerator (code)
\* The streams NumPy's global generator can be in: one per seed, and what the
\* operating system's entropy makes of an unseeded one.
Streams == {1, 2, 3}
Seeds == {1, 2}
\* Steps H of a generate_paths run in SpecGen and of a valid session.
GenSteps == 2

\* One np.random.normal(0, 1) value, rounded to -1, 0 or 1: a function of the
\* stream and of the number of values drawn from it before.
Normal(state) ==
    ((state.stream * (state.pos + 1) + state.pos * state.pos) % 3) - 1

\* np.random.normal(0, 1, n): the next n values of the stream, in order.
NormalArray(state, n) ==
    [k \in 1 .. n |-> Normal([state EXCEPT !.pos = @ + k - 1])]

\* The generator after n values were drawn.
Advance(state, n) == [state EXCEPT !.pos = @ + n]

\* Variant with one slip: a generator that is already set up is not reseeded.
Reseed_once(state, seed) ==
    IF seed # None /\ state = None THEN [stream |-> seed[1], pos |-> 0] ELSE state

\* "if self.seed is not None: np.random.seed(self.seed)"
Reseed(state, seed) ==
    IF seed # None THEN [stream |-> seed[1], pos |-> 0] ELSE state

\* The states of a generator at its first use: an unseeded one holds what
\* the operating system's entropy gave it.
Entropy(state) ==
    IF state = None THEN {[stream |-> e, pos |-> 0] : e \in Streams} ELSE {state}

\* (mu - 0.5 * sigma ** 2) * dt, in percent of the price per step.
drift_term(mu, sigma) == mu - ((sigma * sigma) \div 2)

\* A float of a path, as the fraction num / den in lowest terms; 0 / 0 is NaN.
RECURSIVE Gcd(_, _)
Gcd(a, b) == IF b = 0 THEN a ELSE Gcd(b, a % b)
Ratio(n, d) ==
    Bind(Gcd(Abs(n), Abs(d)),
         LAMBDA g : IF g = 0 THEN [num |-> 0, den |-> 0]
                    ELSE [num |-> n \div g, den |-> d \div g])
Price(x) == Ratio(x, 1)
NaN == Ratio(0, 0)

\* Variant with one slip: 1 + e in place of exp(e).
ExpFactor_linear(e) == Ratio(100 + e, 100)

\* np.exp(e), e in percent: 1 + e for e >= 0 and 1 / (1 - e) below, positive
\* for every e and with exp(-e) = 1 / exp(e).
ExpFactor(e) == IF e >= 0 THEN Ratio(100 + e, 100) ELSE Ratio(100, 100 - e)

\* path[i] = path[i - 1] * exp(drift_term + sigma * dW[i - 1]); sigma is None
\* for NaN, which makes the product NaN. The arithmetic is exact: the
\* rounding of floats is left out.
GBMStep(p, mu, sigma, z) ==
    IF sigma = None \/ p = NaN THEN NaN
    ELSE Bind(ExpFactor(drift_term(mu, sigma[1]) + sigma[1] * z),
              LAMBDA f : Ratio(p.num * f.num, p.den * f.den))

\* The loop of _generate_single_path from entry i on.
RECURSIVE PathSteps(_, _, _, _, _)
PathSteps(path, mu, sigma, dW, i) ==
    IF i > Len(dW) THEN path
    ELSE PathSteps(Append(path, GBMStep(path[Len(path)], mu, sigma, dW[i])),
                   mu, sigma, dW, i + 1)

\* PathGenerator._generate_single_path (num_steps >= 0), with the global
\* generator at state.
generate_single_path(g, state) ==
    PathSteps(<< Price(g.starting_price) >>, g.mu, g.sigma,
              NormalArray(state, g.num_steps), 1)

\* PathGenerator.__init__, and the process and start_time of its
\* generate_paths call.
PathGenerator(starting_price, mu, sigma, forecast_horizon_minutes, n, seed, proc) ==
    [stage |-> "new", proc |-> proc, seed |-> seed,
     starting_price |-> starting_price, mu |-> mu, sigma |-> sigma,
     num_steps |-> forecast_horizon_minutes, num_paths |-> n,
     start_time |-> AnchorTime, paths |-> << >>, time_index |-> << >>]

\* generate_paths is called: the seed is applied and the time index built;
\* pd.date_range raises for periods < 0. A process runs one call at a time.
GenBegin(r) ==
    /\ gen[r].stage = "new"
    /\ \A q \in Runs : gen[q].proc = gen[r].proc => gen[q].stage # "paths"
    /\ \E state \in Entropy(Reseed(np_random[gen[r].proc], gen[r].seed)) :
          /\ np_random' = [np_random EXCEPT ![gen[r].proc] = state]
          /\ IF gen[r].num_steps + 1 < 0
             THEN gen' = [gen EXCEPT ![r].stage = "raised"]
             ELSE gen' = [gen EXCEPT ![r].stage = "paths",
                                     ![r].time_index =
                                         DateRange(gen[r].start_time,
                                                   gen[r].num_steps + 1)]
    /\ UNCHANGED << popVars, liveVars, threadVars, args, history, session, gbm >>

\* One turn of "for _ in range(self.num_paths)": path[0] = starting_price
\* raises on an empty array, else num_steps values are drawn and the path is
\* appended.
GenPath(r) ==
    /\ gen[r].stage = "paths"
    /\ Len(gen[r].paths) < gen[r].num_paths
    /\ IF gen[r].num_steps + 1 = 0
       THEN /\ gen' = [gen EXCEPT ![r].stage = "raised"]
            /\ np_random' = np_random
       ELSE /\ gen' = [gen EXCEPT ![r].paths =
                          Append(@, generate_single_path(gen[r],
                                                         np_random[gen[r].proc]))]
            /\ np_random' = [np_random EXCEPT ![gen[r].proc] =
                                Advance(@, gen[r].num_steps)]
    /\ UNCHANGED << popVars, liveVars, threadVars, args, history, session, gbm >>

\* "return paths, time_index"
GenReturn(r) ==
    /\ gen[r].stage = "paths"
    /\ Len(gen[r].paths) = gen[r].num_paths
    /\ gen' = [gen EXCEPT ![r].stage = "done"]
    /\ UNCHANGED << popVars, liveVars, threadVars, args, history, session,
                    np_random, gbm >>

\* No PathManager and no LiveUpdater have been constructed.
NoUpdater ==
    /\ num_paths = 0
    /\ paths = << >>
    /\ time_index = << >>
    /\ active_paths = {}
    /\ path_metadata = NewMetadata(0)
    /\ ret = [raised |-> FALSE, count |-> None]
    /\ eliminated_total = 0
    /\ filter_tolerance = [num |-> 1, den |-> 100]
    /\ data = [tf \in TIMEFRAMES |-> << >>]
    /\ latest_bars = [tf \in TIMEFRAMES |-> None]
    /\ has_callback = FALSE
    /\ running = FALSE
    /\ update_count = 0
    /\ last_update_time = None
    /\ pc = "idle"
    /\ clock = AnchorTime
    /\ result = [status |-> "none", info |-> None]
    /\ source_failed = FALSE
    /\ delivered = << >>
    /\ returned = << >>
    /\ ThreadsIdle

\* Two generators, equal but for the seed, each called once, in one process
\* or in two.
InitGen ==
    /\ NoUpdater
    /\ args = DefaultArgs
    /\ history = [tf \in TIMEFRAMES |-> << >>]
    /\ session = [p \in Procs |-> NoSession]
    /\ np_random = [p \in Procs |-> None]
    /\ gbm = NoGBM
    /\ \E n \in 1 .. MaxPaths, h \in 0 .. GenSteps, sigma \in {1, 2, 20},
          starting_price \in {1, 100} :
       \E seeds \in [Runs -> {None} \cup {Some(x) : x \in Seeds}],
          procs \in [Runs -> Procs] :
          gen = [r \in Runs |->
                    PathGenerator(starting_price, 0, Some(sigma), h, n, seeds[r],
                                  procs[r])]

NextGen == \E r \in Runs : GenBegin(r) \/ GenPath(r) \/ GenReturn(r)

SpecGen == InitGen /\ [][NextGen]_vars

\* ------------------------------------------------------ claims, generator
\* Path i (counted from 0) of generator g when the stream of its seed is
\* consumed path by path: value i * H + k - 1 of the stream drives step k.
CanonicalPath(g, i) ==
    PathSteps(<< Price(g.starting_price) >>, g.mu, g.sigma,
              [k \in 1 .. g.num_steps |->
                  Normal([stream |-> g.seed[1],
                          pos |-> i * g.num_steps + k - 1])], 1)

\* The inputs of two generate_paths runs are the same.
SameInputs(g, h) ==
    /\ g.seed = h.seed /\ g.num_paths = h.num_paths /\ g.num_steps = h.num_steps
    /\ g.mu = h.mu /\ g.sigma = h.sigma /\ g.starting_price = h.starting_price
    /\ g.start_time = h.start_time

\* C20: a generate_paths run with a seed builds the grid of H + 1 minutes from
\* its start_time and, path after path, the path the seed's stream gives when
\* path 0 takes its first H values, path 1 the next H, and so on, whatever
\* was drawn in the process before; so two finished runs with the same seed
\* and inputs return the same paths and the same grid.
C20_SeededDeterministic ==
    /\ \A r \in Runs :
          (gen[r].seed # None /\ gen[r].stage \in {"paths", "done"}) =>
              /\ gen[r].time_index = DateRange(gen[r].start_time, gen[r].num_steps + 1)
              /\ Len(gen[r].paths) <= gen[r].num_paths
              /\ gen[r].stage = "done" => Len(gen[r].paths) = gen[r].num_paths
              /\ \A i \in 1 .. Len(gen[r].paths) :
                    gen[r].paths[i] = CanonicalPath(gen[r], i - 1)
    /\ \A r, q \in Runs :
          (/\ gen[r].stage = "done" /\ gen[q].stage = "done"
           /\ gen[r].seed # None /\ SameInputs(gen[r], gen[q])) =>
              /\ gen[r].paths = gen[q].paths
              /\ gen[r].time_index = gen[q].time_index

\* C20 witness: two runs with the same seed have finished one after the other
\* in one process, each of two paths or more and two steps or more, and the
\* first two paths of a run differ.
C20_Witness ==
    /\ gen[1].stage = "done" /\ gen[2].stage = "done"
    /\ gen[1].seed # None /\ gen[1].seed = gen[2].seed
    /\ gen[1].proc = gen[2].proc
    /\ gen[1].num_paths >= 2 /\ gen[1].num_steps >= 2
    /\ gen[1].paths[1] # gen[1].paths[2]
    /\ np_random[gen[1].proc].pos = gen[1].num_paths * gen[1].num_steps

\* ------------------------------------------------ main, run_live_mode (code)
\* MultiTimeframeManager.HTF_TIMEFRAMES, in the order of the list.
HTF_TIMEFRAMES == << "1d", "4h", "1h" >>

\* df["close"].pct_change().dropna(), in whole percent.
Returns(bars) ==
    [k \in 1 .. Len(bars) - 1 |->
        ((bars[k + 1].close - bars[k].close) * 100) \div bars[k].close]

\* returns.mean()
Mean(rs) == SumSeq(rs) \div Len(rs)

\* The square root, rounded down.
Isqrt(x) == CHOOSE r \in 0 .. x : r * r <= x /\ x < (r + 1) * (r + 1)

\* returns.std(): the sample standard deviation, NaN (None) for one return.
Std(rs) ==
    IF Len(rs) < 2 THEN None
    ELSE Some(Isqrt(SumSeq([k \in 1 .. Len(rs) |->
                               (rs[k] - Mean(rs)) * (rs[k] - Mean(rs))])
                    \div (Len(rs) - 1)))

\* MultiTimeframeManager.calculate_htf_parameters; mu and sigma per period,
\* the annualisation left out.
calculate_htf_parameters(d) ==
    [tf \in {HTF_TIMEFRAMES[k] : k \in {j \in 1 .. Len(HTF_TIMEFRAMES) :
                                     Len(d[HTF_TIMEFRAMES[j]]) >= 2}} |->
        [mu |-> Mean(Returns(d[tf])), sigma |-> Std(Returns(d[tf]))]]

\* Variant with one slip: without "1d" the last key is taken.
preferred_tf_last(htf_params) ==
    IF "1d" \in DOMAIN htf_params THEN "1d"
    ELSE HTF_TIMEFRAMES[CHOOSE k \in 1 .. Len(HTF_TIMEFRAMES) :
            /\ HTF_TIMEFRAMES[k] \in DOMAIN htf_params
            /\ \A j \in k + 1 .. Len(HTF_TIMEFRAMES) :
                  HTF_TIMEFRAMES[j] \notin DOMAIN htf_params]

\* "1d" if "1d" in htf_params else list(htf_params.keys())[0]
preferred_tf(htf_params) ==
    IF "1d" \in DOMAIN htf_params THEN "1d"
    ELSE HTF_TIMEFRAMES[CHOOSE k \in 1 .. Len(HTF_TIMEFRAMES) :
            /\ HTF_TIMEFRAMES[k] \in DOMAIN htf_params
            /\ \A j \in 1 .. k - 1 : HTF_TIMEFRAMES[j] \notin DOMAIN htf_params]

\* calendar.get_weekly_open() and calendar.get_daily_open(), as instants.
WeeklyOpen == AnchorTime - 6 * MinuteTicks
DailyOpen == AnchorTime - 2 * MinuteTicks

\* The close of the bar nearest to instant t, the first of them on a tie
\* (time_diff_series.idxmin()).
ClosestClose(bars, t) ==
    bars[CHOOSE k \in 1 .. Len(bars) :
            /\ \A j \in 1 .. Len(bars) :
                  Abs(bars[k].timestamp - t) <= Abs(bars[j].timestamp - t)
            /\ \A j \in 1 .. k - 1 :
                  Abs(bars[j].timestamp - t) > Abs(bars[k].timestamp - t)].close

\* Python's "a or b" on optional floats.
PyOr(a, b) == IF a = None \/ a = Some(0) THEN b ELSE a

\* float(args.starting_price): None for ValueError.
ParseFloat(text) == IF text = "100" THEN Some(100) ELSE None

\* Variant with one slip: without any bar the keyword prices fall back to 100.
StartingPrice_default(a, d) ==
    IF a.starting_price = "weekly-open"
    THEN IF d["1d"] # << >> THEN Some(ClosestClose(d["1d"], WeeklyOpen))
         ELSE PyOr(PyOr(get_latest_close(d, [tf \in TIMEFRAMES |-> None], "1d"),
                        get_latest_close(d, [tf \in TIMEFRAMES |-> None], "1m")),
                   Some(100))
    ELSE IF a.starting_price = "daily-open"
    THEN IF d["1m"] # << >> THEN Some(ClosestClose(d["1m"], DailyOpen))
         ELSE Some(100)
    ELSE ParseFloat(a.starting_price)

\* "Determine starting price" of run_live_mode: the price, or None where the
\* code raises ValueError.
StartingPrice(a, d) ==
    IF a.starting_price = "weekly-open"
    THEN IF d["1d"] # << >> THEN Some(ClosestClose(d["1d"], WeeklyOpen))
         ELSE PyOr(get_latest_close(d, [tf \in TIMEFRAMES |-> None], "1d"),
                   get_latest_close(d, [tf \in TIMEFRAMES |-> None], "1m"))
    ELSE IF a.starting_price = "daily-open"
    THEN IF d["1m"] # << >> THEN Some(ClosestClose(d["1m"], DailyOpen))
         ELSE get_latest_close(d, [tf \in TIMEFRAMES |-> None], "1m")
    ELSE ParseFloat(a.starting_price)

\* The PathGenerator run_live_mode constructs: no seed is passed.
SessionGenerator(p, a, start_price, params) ==
    PathGenerator(start_price, params.mu, params.sigma,
                  a.forecast_horizon_minutes, a.num_paths, None, p)

\* Update cycles a session's loop runs at most.
MaxSessionCycles == 1

\* The command lines of the sessions.
SessionArgs ==
    [starting_price : {"weekly-open", "daily-open", "100", "abc"},
     num_paths : {MaxPaths},
     tolerance : {[num |-> 0, den |-> 100], [num |-> 1, den |-> 100],
                  [num |-> 150, den |-> 100]},
     forecast_horizon_minutes : {0 - 2, 0 - 1, 0, GenSteps},
     forecast_period : {0, 252},
     seed : {Some(1)}]

\* What the bar source returns to fetch_historical_data: no, one or three
\* daily bars, no or two four-hour bars, no or three hourly bars, no or one
\* minute bar.
Histories ==
    {[tf \in TIMEFRAMES |->
         IF tf = "1d" THEN daily ELSE IF tf = "4h" THEN four_hour
         ELSE IF tf = "1h" THEN hourly
         ELSE IF tf = "1m" THEN minute ELSE << >>] :
       daily \in {<< >>, << Bar(WeeklyOpen, 100) >>,
                  << Bar(WeeklyOpen - MinuteTicks, 100), Bar(WeeklyOpen, 102),
                     Bar(DailyOpen, 100) >>},
       four_hour \in {<< >>, << Bar(WeeklyOpen, 100), Bar(DailyOpen, 103) >>},
       hourly \in {<< >>, << Bar(WeeklyOpen, 100), Bar(DailyOpen - MinuteTicks, 101),
                            Bar(DailyOpen, 103) >>},
       minute \in {<< >>, << Bar(DailyOpen, 101) >>}}

\* An exception reaches "except Exception" of main or run_live_mode:
\* the process returns 1.
Fail(p, why) ==
    session' = [session EXCEPT ![p].phase = "exit", ![p].error = why,
                               ![p].exit_code = Some(1)]

\* main up to run_live_mode: validate_args.
SessValidate(p) ==
    /\ session[p].phase = "main"
    /\ IF args.forecast_period <= 0
       THEN Fail(p, "forecast-period")
       ELSE session' = [session EXCEPT ![p].phase = "fetch"]
    /\ UNCHANGED << popVars, liveVars, threadVars, args, history, gen, np_random, gbm >>

\* fetch_historical_data: a timeframe whose fetch fails is stored empty.
SessFetch(p) ==
    /\ session[p].phase = "fetch"
    /\ session' = [session EXCEPT ![p].phase = "price", ![p].data = history]
    /\ UNCHANGED << popVars, liveVars, threadVars, args, history, gen, np_random, gbm >>

\* "Determine starting price"
SessPrice(p) ==
    /\ session[p].phase = "price"
    /\ \E price \in {StartingPrice(args, session[p].data)} :
          IF price = None
          THEN Fail(p, "starting price")
          ELSE session' = [session EXCEPT ![p].phase = "params",
                                          ![p].start_price = price]
    /\ UNCHANGED << popVars, liveVars, threadVars, args, history, gen, np_random, gbm >>

\* calculate_htf_parameters, "if not htf_params", and the PathGenerator.
SessParams(p) ==
    /\ session[p].phase = "params"
    /\ \E htf_params \in {calculate_htf_parameters(session[p].data)} :
          IF DOMAIN htf_params = {}
          THEN /\ Fail(p, "parameters")
               /\ gen' = gen
          ELSE /\ session' = [session EXCEPT ![p].phase = "generate",
                                               ![p].htf_params = htf_params,
                                               ![p].preferred_tf =
                                                   Some(preferred_tf(htf_params))]
               /\ gen' = [gen EXCEPT ![p] =
                            SessionGenerator(p, args, session[p].start_price[1],
                                             htf_params[preferred_tf(htf_params)])]
    /\ UNCHANGED << popVars, liveVars, threadVars, args, history, np_random, gbm >>

\* generate_paths has returned or raised: PathManager, PathFilter,
\* LiveUpdater and updater.start(), or the exception handler.
SessUpdater(p) ==
    /\ session[p].phase = "generate"
    /\ gen[p].stage \in {"done", "raised"}
    /\ IF gen[p].stage = "raised"
       THEN Fail(p, "generate_paths")
       ELSE session' = [session EXCEPT ![p].phase = "running",
                                       ![p].paths = gen[p].paths,
                                       ![p].time_index = gen[p].time_index,
                                       ![p].tolerance = Some(args.tolerance)]
    /\ UNCHANGED << popVars, liveVars, threadVars, args, history, gen, np_random, gbm >>

\* The loop of updater.start() runs one update cycle.
SessCycle(p) ==
    /\ session[p].phase = "running"
    /\ session[p].cycles < MaxSessionCycles
    /\ session' = [session EXCEPT ![p].cycles = @ + 1]
    /\ UNCHANGED << popVars, liveVars, threadVars, args, history, gen, np_random, gbm >>

\* Ctrl+C: "except KeyboardInterrupt" returns 130.
SessInterrupt(p) ==
    /\ session[p].phase = "running"
    /\ session' = [session EXCEPT ![p].phase = "exit", ![p].exit_code = Some(130)]
    /\ UNCHANGED << popVars, liveVars, threadVars, args, history, gen, np_random, gbm >>

\* Two processes are started with the same command line against the same
\* bar source.
InitSession ==
    /\ NoUpdater
    /\ args \in SessionArgs
    /\ history \in Histories
    /\ session = [p \in Procs |-> NoSession]
    /\ gen = [r \in Runs |-> NoGenerator]
    /\ np_random = [p \in Procs |-> None]
    /\ gbm = NoGBM

NextSession ==
    \E p \in Procs :
        \/ SessValidate(p) \/ SessFetch(p) \/ SessPrice(p) \/ SessParams(p)
        \/ GenBegin(p) \/ GenPath(p) \/ GenReturn(p)
        \/ SessUpdater(p) \/ SessCycle(p) \/ SessInterrupt(p)

SpecSession == InitSession /\ [][NextSession]_vars

\* ------------------------------------------------------- claims, sessions
\* The configuration errors: tolerance not inside (0, 1), a horizon of 0 or
\* less, a starting_price that is no keyword and no number.
BadConfig(a) ==
    \/ a.tolerance.num <= 0
    \/ a.tolerance.num >= a.tolerance.den
    \/ a.forecast_horizon_minutes <= 0
    \/ /\ a.starting_price \notin {"weekly-open", "daily-open"}
       /\ ParseFloat(a.starting_price) = None

\* Process p never got as far as the update loop.
NeverStarted(p) ==
    /\ session[p].phase # "running"
    /\ session[p].cycles = 0
    /\ session[p].paths = << >>
    /\ session[p].phase = "exit" => session[p].exit_code = Some(1)

\* C17 (as claimed): a session with a configuration error never reaches the
\* update loop: it runs no cycle and, once over, has returned 1.
C17_BadConfigRejected ==
    BadConfig(args) => \A p \in Procs : NeverStarted(p)

\* No higher timeframe of the store has two bars.
NoHTF(d) == \A k \in 1 .. Len(HTF_TIMEFRAMES) : Len(d[HTF_TIMEFRAMES[k]]) < 2

\* The store has no bar a keyword starting price could be read from.
NoAnchor(a, d) ==
    \/ a.starting_price = "weekly-open" /\ d["1d"] = << >> /\ d["1m"] = << >>
    \/ a.starting_price = "daily-open" /\ d["1m"] = << >>

\* C18: once the historical fetch is done, a session whose store has no
\* higher timeframe with two bars, or no bar for its keyword starting price,
\* constructs no PathGenerator and never reaches updater.start(): it runs no
\* cycle and ends with exit code 1.
C18_DataUnavailableFatal ==
    \A p \in Procs :
        (/\ session[p].phase \notin {"main", "fetch"}
         /\ NoHTF(session[p].data) \/ NoAnchor(args, session[p].data)) =>
            /\ NeverStarted(p)
            /\ session[p].phase \in {"price", "params", "exit"}
            /\ gen[p].stage = "none"

\* C18 witness: with a valid command line and a resolved price, a session has
\* ended for the missing parameters: exit code 1, no cycle, no generator.
C18_Witness ==
    /\ ~BadConfig(args)
    /\ session[1].phase = "exit" /\ session[1].error = "parameters"
    /\ session[1].start_price # None /\ session[1].exit_code = Some(1)
    /\ session[1].cycles = 0 /\ gen[1].stage = "none"

\* C19 (as claimed): two sessions started with the same command line, seed
\* included, against the same bars hold the same paths once both are in
\* their update loop.
C19_SessionsAgree ==
    (/\ args.seed # None
     /\ \A p \in Procs : session[p].phase = "running") =>
        /\ session[1].paths = session[2].paths
        /\ session[1].time_index = session[2].time_index

\* -------------------------------------------- claims, generator's output
\* C21: a finished generate_paths run with N >= 1 and H >= 1 has returned N
\* paths of H + 1 entries, each starting at the starting price, and a grid of
\* H + 1 instants that starts at start_time and goes up by one minute a step.
C21_ShapeOfOutput ==
    \A r \in Runs :
        (gen[r].stage = "done" /\ gen[r].num_paths >= 1 /\ gen[r].num_steps >= 1) =>
            /\ Len(gen[r].paths) = gen[r].num_paths
            /\ \A i \in 1 .. Len(gen[r].paths) :
                  /\ Len(gen[r].paths[i]) = gen[r].num_steps + 1
                  /\ gen[r].paths[i][1] = Price(gen[r].starting_price)
            /\ DOMAIN gen[r].time_index = 0 .. gen[r].num_steps
            /\ gen[r].time_index[0] = gen[r].start_time
            /\ \A s \in 1 .. gen[r].num_steps :
                  gen[r].time_index[s] = gen[r].time_index[s - 1] + MinuteTicks

\* C21 witness: an unseeded run of the largest size has finished.
C21_Witness ==
    /\ gen[1].stage = "done" /\ gen[1].seed = None
    /\ gen[1].num_paths = MaxPaths /\ gen[1].num_steps = GenSteps
    /\ Len(gen[1].paths[MaxPaths]) = GenSteps + 1

\* A float that is greater than 0 (NaN is not).
Positive(p) == p.num > 0 /\ p.den > 0

\* C22: with a starting price above 0 and a sigma that is a number, 0 or
\* more, every entry of every path generated so far is above 0.
C22_EntriesPositive ==
    \A r \in Runs :
        (/\ gen[r].starting_price > 0
         /\ gen[r].sigma # None /\ gen[r].sigma[1] >= 0) =>
            \A i \in 1 .. Len(gen[r].paths) :
                \A s \in 1 .. Len(gen[r].paths[i]) : Positive(gen[r].paths[i][s])

\* C22 witness: a finished run whose exponent went below -100 percent in the
\* first step: the path's second entry is under a third of its starting
\* price.
C22_Witness ==
    /\ gen[1].stage = "done" /\ gen[1].num_steps >= 2
    /\ Positive(gen[1].paths[1][2])
    /\ 3 * gen[1].paths[1][2].num < gen[1].starting_price * gen[1].paths[1][2].den

\* ------------------------------------------- the store on its own (code)
\* Number of bar timestamps the source can report.
MaxBars == 3
StoreTimes == {AnchorTime + k * MinuteTicks : k \in 1 .. MaxBars}
StoreCloses == {100, 101}

\* What client.get_latest_bar does for "1m": any bar, of any of the
\* timestamps, in any order; and for "1d".
StoreOutcomes ==
    {FetchRaised, Fetched(None)}
        \cup {Fetched(Some(Bar(t, c))) : t \in StoreTimes, c \in StoreCloses}
DailyOutcomes ==
    {FetchRaised, Fetched(None), Fetched(Some(Bar(AnchorTime + 2 * MinuteTicks, 101)))}

\* update_latest_bars; the timeframes other than "1m" and "1d" have no bar.
StoreUpdate ==
    /\ \E minute \in StoreOutcomes, daily \in DailyOutcomes :
       \E store \in {update_latest_bars(data, latest_bars,
                        [tf \in TIMEFRAMES |->
                            IF tf = "1m" THEN minute
                            ELSE IF tf = "1d" THEN daily ELSE Fetched(None)])} :
          /\ data' = store.data
          /\ latest_bars' = store.latest_bars
    /\ result' = [status |-> "update_latest_bars", info |-> None]
    /\ UNCHANGED << popVars, filter_tolerance, has_callback, running, update_count,
                    last_update_time, pc, clock, source_failed, delivered,
                    returned, auxVars >>

\* get_latest_close(timeframe)
StoreRead(timeframe) ==
    /\ result' = [status |-> "latest_close", timeframe |-> timeframe,
                  info |-> get_latest_close(data, latest_bars, timeframe)]
    /\ UNCHANGED << popVars, filter_tolerance, data, latest_bars, has_callback,
                    running, update_count, last_update_time, pc, clock,
                    source_failed, delivered, returned, auxVars >>

\* The store after fetch_historical_data: a series is empty where the fetch
\* failed, else sorted by fetch_bars.
InitStore ==
    /\ num_paths = 0
    /\ paths = << >>
    /\ time_index = << >>
    /\ active_paths = {}
    /\ path_metadata = NewMetadata(0)
    /\ ret = [raised |-> FALSE, count |-> None]
    /\ eliminated_total = 0
    /\ filter_tolerance = [num |-> 1, den |-> 100]
    /\ \E minute \in {<< >>} \cup {<< Bar(t, 100) >> : t \in StoreTimes},
          daily \in {<< >>, << Bar(AnchorTime + MinuteTicks, 100) >>} :
          data = [tf \in TIMEFRAMES |->
                     IF tf = "1m" THEN minute ELSE IF tf = "1d" THEN daily ELSE << >>]
    /\ latest_bars = [tf \in TIMEFRAMES |-> None]
    /\ has_callback = FALSE
    /\ running = FALSE
    /\ update_count = 0
    /\ last_update_time = None
    /\ pc = "idle"
    /\ clock = AnchorTime
    /\ result = [status |-> "none", info |-> None]
    /\ source_failed = FALSE
    /\ delivered = << >>
    /\ returned = << >>
    /\ AuxIdle

NextStore == StoreUpdate \/ \E timeframe \in {"1m", "1d", "1h"} : StoreRead(timeframe)

SpecStore == InitStore /\ [][NextStore]_vars

\* ---------------------------------------------------------- claims, store
StrictlyIncreasing(series) ==
    \A k \in 1 .. Len(series) - 1 : series[k].timestamp < series[k + 1].timestamp

\* C23: whatever bars update_latest_bars is handed, in whatever order, every
\* stored series keeps strictly increasing timestamps, and a call whose bar
\* has a timestamp the series already holds leaves the series as it was.
C23_SeriesStrictlyIncreasing ==
    /\ [](\A tf \in TIMEFRAMES : StrictlyIncreasing(data[tf]))
    /\ [][\A tf \in TIMEFRAMES :
             (/\ result'.status = "update_latest_bars"
              /\ latest_bars'[tf] # None
              /\ \E k \in 1 .. Len(data[tf]) :
                    data[tf][k].timestamp = latest_bars'[tf][1].timestamp) =>
                 data'[tf] = data[tf]]_vars

\* C23 witness: the 1m series holds a bar of every timestamp, the last call
\* brought a bar with the first timestamp and another close than the stored
\* one, and the 1d series has grown as well.
C23_Witness ==
    /\ result.status = "update_latest_bars"
    /\ Len(data["1m"]) = MaxBars /\ Len(data["1d"]) = 2
    /\ latest_bars["1m"] # None
    /\ latest_bars["1m"][1].timestamp = data["1m"][1].timestamp
    /\ latest_bars["1m"][1].close # data["1m"][1].close

\* C24: get_latest_close(timeframe) returns the close of the cached latest
\* bar when there is one, else the close of the last stored bar, and None
\* exactly when there is neither.
C24_LatestClose ==
    [][result'.status = "latest_close" =>
          /\ latest_bars[result'.timeframe] # None =>
                result'.info = Some(latest_bars[result'.timeframe][1].close)
          /\ (latest_bars[result'.timeframe] = None
                 /\ data[result'.timeframe] # << >>) =>
                result'.info =
                    Some(data[result'.timeframe][Len(data[result'.timeframe])].close)
          /\ result'.info = None <=>
                (latest_bars[result'.timeframe] = None
                    /\ data[result'.timeframe] = << >>)]_vars

\* C24 witness: the close of the cached bar was returned while the last
\* stored bar has another close.
C24_Witness ==
    /\ result.status = "latest_close" /\ result.timeframe = "1m"
    /\ latest_bars["1m"] # None /\ data["1m"] # << >>
    /\ result.info = Some(latest_bars["1m"][1].close)
    /\ data["1m"][Len(data["1m"])].close # latest_bars["1m"][1].close

\* ------------------------------------------------------ claims, estimator
\* The higher timeframes of a store that have two bars or more.
Populated(d) ==
    {HTF_TIMEFRAMES[k] : k \in {j \in 1 .. Len(HTF_TIMEFRAMES) :
                                  Len(d[HTF_TIMEFRAMES[j]]) >= 2}}

\* "1d" when populated, else the first populated one of 1d, 4h, 1h.
FirstPopulated(d) ==
    IF Len(d["1d"]) >= 2 THEN "1d" ELSE IF Len(d["4h"]) >= 2 THEN "4h" ELSE "1h"

\* The estimator has returned in process p.
Estimated(p) == session[p].preferred_tf # None \/ session[p].error = "parameters"

\* C25: the mapping the estimator returned has an entry for exactly the
\* higher timeframes with two bars or more (none when there is no such
\* timeframe), and the generator of the session is built from the entry of
\* "1d" when there is one, else from the first of 1d, 4h, 1h that has one.
C25_EstimatorEntries ==
    \A p \in Procs :
        Estimated(p) =>
            /\ DOMAIN session[p].htf_params = Populated(session[p].data)
            /\ Populated(session[p].data) = {} <=> session[p].error = "parameters"
            /\ gen[p].stage # "none" =>
                  /\ session[p].preferred_tf = Some(FirstPopulated(session[p].data))
                  /\ gen[p].mu =
                        session[p].htf_params[FirstPopulated(session[p].data)].mu
                  /\ gen[p].sigma =
                        session[p].htf_params[FirstPopulated(session[p].data)].sigma

\* C25 witness: without two daily bars and with both other higher timeframes
\* populated, a session is in its loop with the generator built from "4h".
C25_Witness ==
    /\ session[1].phase = "running"
    /\ Populated(session[1].data) = {"4h", "1h"}
    /\ session[1].preferred_tf = Some("4h")
    /\ gen[1].mu # session[1].htf_params["1h"].mu

\* C26 (as claimed): for every higher timeframe with two bars or more of the
\* store (all closes above 0), mu and sigma of its entry are numbers and
\* sigma is 0 or more, a series of exactly two bars included.
C26_ParametersDefined ==
    \A p \in Procs :
        \A tf \in DOMAIN session[p].htf_params :
            /\ session[p].htf_params[tf].sigma # None
            /\ session[p].htf_params[tf].sigma[1] >= 0

\* ------------------------------------- the zone detector on its own (code)
\* Populations for the detector: sizes[c] paths that stay at price 95 + c.
ZoneSizes ==
    {<< 0, 0, 0, 10, 200, 10, 0 >>, << 1, 1, 1, 1, 1, 1, 1 >>,
     << 0, 0, 0, 2, 1, 2, 0 >>, << 3, 0, 0, 2, 0, 0, 3 >>,
     << 0, 0, 0, 0, 3, 0, 0 >>, << 2, 2, 2, 2, 2, 2, 1 >>}

ZoneClusterOf(sizes, i) ==
    CHOOSE c \in 1 .. Len(sizes) :
        /\ i < SumSeq(SubSeq(sizes, 1, c))
        /\ i >= SumSeq(SubSeq(sizes, 1, c - 1))

ZonePaths(sizes) ==
    [i \in 0 .. SumSeq(sizes) - 1 |->
        [s \in 0 .. Horizon |-> 95 + ZoneClusterOf(sizes, i)]]

\* The arguments detect_zones is called with.
ZoneBins == {1, 3, DefaultNumBins}
ZoneMinPaths == {1, DefaultMinPaths}

InitZones ==
    /\ \E sizes \in ZoneSizes :
          /\ num_paths = SumSeq(sizes)
          /\ paths = ZonePaths(sizes)
    /\ time_index = DateRange(AnchorTime, Horizon + 1)
    /\ active_paths = 0 .. num_paths - 1
    /\ path_metadata = NewMetadata(num_paths)
    /\ ret = [raised |-> FALSE, count |-> None]
    /\ eliminated_total = 0
    /\ filter_tolerance = [num |-> 1, den |-> 100]
    /\ data = [tf \in TIMEFRAMES |-> << >>]
    /\ latest_bars = [tf \in TIMEFRAMES |-> None]
    /\ has_callback = FALSE
    /\ running = FALSE
    /\ update_count = 0
    /\ last_update_time = None
    /\ pc = "idle"
    /\ clock = AnchorTime
    /\ result = [status |-> "none", info |-> None]
    /\ source_failed = FALSE
    /\ delivered = << >>
    /\ returned = << >>
    /\ AuxIdle

\* eliminate_paths with the price of a cluster and tolerance 0 or 1%.
ZoneEliminate ==
    /\ \E actual_price \in 96 .. 102,
          tolerance \in {[num |-> 0, den |-> 1], [num |-> 1, den |-> 100]} :
       \E r \in {eliminate_paths(active_paths, path_metadata, actual_price,
                                 AnchorTime, tolerance,
                                 AscendingOrder(active_paths))} :
          /\ active_paths' = r.active_paths
          /\ path_metadata' = r.path_metadata
          /\ ret' = [raised |-> r.raised, count |-> r.count]
          /\ eliminated_total' =
                 IF r.raised THEN eliminated_total ELSE eliminated_total + r.count[1]
    /\ UNCHANGED << paths, time_index, num_paths, liveVars, auxVars >>

\* detect_zones(timestamp, num_bins, min_paths), and zones[:5] of it as
\* update() puts it into a snapshot.
ZoneDetect ==
    /\ \E num_bins \in ZoneBins, min_paths \in ZoneMinPaths :
       \E zones \in {detect_zones(active_paths, AnchorTime, num_bins, min_paths)} :
          result' = [status |-> "zones", num_bins |-> num_bins,
                     min_paths |-> min_paths, info |-> zones,
                     top |-> TopZones(zones)]
    /\ UNCHANGED << popVars, filter_tolerance, data, latest_bars, has_callback,
                    running, update_count, last_update_time, pc, clock,
                    source_failed, delivered, returned, auxVars >>

NextZones == ZoneEliminate \/ ZoneDetect

SpecZones == InitZones /\ [][NextZones]_vars

\* ---------------------------------------------------------- claims, zones
\* The numerators of the zones' probabilities, summed.
RECURSIVE SumOfProbabilities(_, _)
SumOfProbabilities(zones, k) ==
    IF k > Len(zones) THEN 0
    ELSE zones[k].probability.num + SumOfProbabilities(zones, k + 1)

\* C27: every zone detect_zones returned (min_paths >= 1) has a probability
\* from 0 to 1, its price_level between its price_low and price_high, and a
\* path_count of 1 or more; the probabilities of one list sum to 1 at most;
\* the zones of the snapshot are zones of that list.
C27_ZonesWellFormed ==
    result.status = "zones" =>
        /\ \A k \in 1 .. Len(result.info) :
              /\ result.info[k].probability.den > 0
              /\ result.info[k].probability.num >= 0
              /\ result.info[k].probability.num <= result.info[k].probability.den
              /\ result.info[k].probability.den = result.info[1].probability.den
              /\ result.info[k].price_low <= result.info[k].price_level
              /\ result.info[k].price_level <= result.info[k].price_high
              /\ result.info[k].path_count >= 1
        /\ Len(result.info) > 0 =>
              SumOfProbabilities(result.info, 1) <= result.info[1].probability.den
        /\ \A k \in 1 .. Len(result.top) : result.top[k] = result.info[k]

\* C27 witness: three zones or more were returned whose probabilities sum to
\* 1, after an elimination.
C27_Witness ==
    /\ result.status = "zones" /\ Len(result.info) >= 3
    /\ SumOfProbabilities(result.info, 1) = result.info[1].probability.den
    /\ result.info[1].probability.den < num_paths

\* C28: the list detect_zones returned goes down in probability, zones of
\* equal probability go up in price_level, and the snapshot holds the first
\* five zones of that list, in its order.
C28_ZonesSorted ==
    result.status = "zones" =>
        /\ \A k \in 1 .. Len(result.info) - 1 :
              \/ result.info[k].probability.num > result.info[k + 1].probability.num
              \/ /\ result.info[k].probability.num = result.info[k + 1].probability.num
                 /\ result.info[k].price_level < result.info[k + 1].price_level
        /\ Len(result.top) = IF Len(result.info) < TopZoneCount
                             THEN Len(result.info) ELSE TopZoneCount
        /\ result.top = SubSeq(result.info, 1, Len(result.top))

\* C28 witness: more than five zones were returned, the first two of one
\* probability and a later one of a smaller one.
C28_Witness ==
    /\ result.status = "zones" /\ Len(result.info) > TopZoneCount
    /\ result.info[1].probability = result.info[2].probability
    /\ result.info[Len(result.info)].probability.num < result.info[1].probability.num
    /\ Len(result.top) = TopZoneCount

\* C29 (as claimed): with 10 live paths at 99, 200 at 100 and 10 at 101 and
\* 3 bins, detect_zones returns the zone at 100 (200/220, convergence), then
\* the zone at 99 (10/220, support) and the zone at 101 (10/220, resistance).
\* Prices are in units of 1/(2 * 3); the zone at a price is the one whose
\* bin holds that price.
C29_ThreeZones ==
    (/\ result.status = "zones" /\ result.num_bins = 3
     /\ num_paths = 220 /\ Cardinality(active_paths) = 220) =>
        /\ Len(result.info) = 3
        /\ result.info[1].price_low <= 100 * 2 * 3
        /\ result.info[1].price_high >= 100 * 2 * 3
        /\ result.info[1].probability = [num |-> 200, den |-> 220]
        /\ result.info[1].zone_type = "convergence"
        /\ result.info[2].price_low <= 99 * 2 * 3
        /\ result.info[2].price_high >= 99 * 2 * 3
        /\ result.info[2].probability = [num |-> 10, den |-> 220]
        /\ result.info[2].zone_type = "support"
        /\ result.info[3].price_low <= 101 * 2 * 3
        /\ result.info[3].price_high >= 101 * 2 * 3
        /\ result.info[3].probability = [num |-> 10, den |-> 220]
        /\ result.info[3].zone_type = "resistance"

\* The population of 10 paths at 99, 200 at 100 and 10 at 101, all live, was
\* given to detect_zones with 3 bins.
ThreeClusters ==
    /\ result.status = "zones" /\ result.num_bins = 3
    /\ num_paths = 220 /\ Cardinality(active_paths) = 220
    /\ result.info # << >> => result.info[1].probability.den = 220

\* C29 (amended): with 10 live paths at 99, 200 at 100 and 10 at 101 and 3
\* bins, detect_zones returns one zone: the bin that holds 100, with
\* probability 200/220 and labelled convergence.  The bins of 99 and of 101
\* hold 10 paths, fewer than 0.3 * 200.
C29_OneZone ==
    ThreeClusters =>
        /\ Len(result.info) = 1
        /\ result.info[1].price_low <= 100 * 2 * 3
        /\ result.info[1].price_high >= 100 * 2 * 3
        /\ result.info[1].path_count = 200
        /\ result.info[1].probability = [num |-> 200, den |-> 220]
        /\ result.info[1].zone_type = "convergence"

\* C29 witness: detect_zones ran on that population with 3 bins and the
\* default min_paths.
C29_Witness == ThreeClusters /\ result.min_paths = DefaultMinPaths /\ result.info # << >>

\* ------------------------------- eliminations that follow one path (code)
\* A population of SpecPop and a path k of it; every call of eliminate_paths
\* takes as observed price the price get_path_at_time gives for path k at
\* the call's timestamp.  result keeps k, the arguments of the last call and
\* the number of live paths before it.
InitFollow ==
    /\ num_paths \in 1 .. MaxPaths
    /\ paths \in GeneratedPaths(num_paths)
    /\ time_index = DateRange(AnchorTime, Horizon + 1)
    /\ active_paths = 0 .. num_paths - 1
    /\ path_metadata = NewMetadata(num_paths)
    /\ ret = [raised |-> FALSE, count |-> None]
    /\ eliminated_total = 0
    /\ filter_tolerance = [num |-> 1, den |-> 100]
    /\ data = [tf \in TIMEFRAMES |-> << >>]
    /\ latest_bars = [tf \in TIMEFRAMES |-> None]
    /\ has_callback = FALSE
    /\ running = FALSE
    /\ update_count = 0
    /\ last_update_time = None
    /\ pc = "idle"
    /\ clock = AnchorTime
    /\ \E k \in 0 .. num_paths - 1 :
          result = [status |-> "followed", path |-> k, info |-> None,
                    before |-> num_paths]
    /\ source_failed = FALSE
    /\ delivered = << >>
    /\ returned = << >>
    /\ AuxIdle

\* eliminate_paths(paths[k] at timestamp, timestamp, tolerance)
FollowEliminate ==
    /\ \E timestamp \in CallTimes \cup {AnchorTime}, tolerance \in Tolerances,
          order \in Orders(active_paths) :
       \E observed \in {get_path_at_time(result.path, timestamp)} :
          /\ observed # None
          /\ \E r \in {eliminate_paths(active_paths, path_metadata, observed[1],
                                       timestamp, tolerance, order)} :
                /\ active_paths' = r.active_paths
                /\ path_metadata' = r.path_metadata
                /\ ret' = [raised |-> r.raised, count |-> r.count]
                /\ eliminated_total' =
                       IF r.raised THEN eliminated_total
                       ELSE eliminated_total + r.count[1]
          /\ result' = [status |-> "eliminate_paths", path |-> result.path,
                        info |-> [actual_price |-> observed[1],
                                  timestamp |-> timestamp,
                                  tolerance |-> tolerance],
                        before |-> Cardinality(active_paths)]
    /\ UNCHANGED << paths, time_index, num_paths, filter_tolerance, data,
                    latest_bars, has_callback, running, update_count,
                    last_update_time, pc, clock, source_failed, delivered,
                    returned, auxVars >>

NextFollow == FollowEliminate

SpecFollow == InitFollow /\ [][NextFollow]_vars

\* -------------------------------------------------- claims, followed path
\* C30: when every call of eliminate_paths is given the price of one path k
\* at the call's timestamp (a price > 0, a tolerance >= 0), path k is live
\* and not marked eliminated after every call, no call raises, the number of
\* live paths after a call is at most the number before it, and the live set
\* is not empty.
C30_FollowedPathKept ==
    /\ result.path \in active_paths
    /\ ~path_metadata[result.path].eliminated
    /\ active_paths # {}
    /\ result.status = "eliminate_paths" =>
          /\ result.info.actual_price > 0
          /\ ~ret.raised
          /\ Cardinality(active_paths) <= result.before
          /\ Cardinality(active_paths) = result.before - ret.count[1]

\* C30 witness: a call with tolerance 0 was made after an earlier call had
\* removed a path.
C30_Witness ==
    /\ result.status = "eliminate_paths"
    /\ result.before < num_paths
    /\ result.info.tolerance.num = 0
    /\ result.path \in active_paths

\* ------------------------------------ the queries of a population (code)
\* PathManager.get_path_bounds_at_time on live set act: None without a live
\* price, else min, max and mean (the fraction num / den) of the live prices.
get_path_bounds_at_time(act, timestamp) ==
    IF act = {} THEN None
    ELSE Bind(get_all_paths_at_time(act, timestamp),
              LAMBDA prices :
                 IF prices = << >> THEN None
                 ELSE Some([min |-> SeqMin(prices), max |-> SeqMax(prices),
                            mean |-> [num |-> SumSeq(prices), den |-> Len(prices)]]))

\* Arguments of the calls: the first instant of the grid and half a minute
\* before its last, observed prices and a tolerance, bins and min_paths.
QueryTimes == {AnchorTime, LastTime - 1}
QueryObserved == {0, 99, 101}
QueryTolerances == {[num |-> 1, den |-> 100]}
QueryBins == {1, 3}
QueryMinPaths == {1, 2}

\* What a call leaves in result: its name, its arguments, what it returned,
\* and whether the call before it was the same call.
Returned(name, call_args, value) ==
    [status |-> name, args |-> call_args, info |-> value,
     repeat |-> result.status = name /\ result.args = call_args]

\* eliminate_paths(actual_price, timestamp, tolerance)
QueryEliminate ==
    /\ \E actual_price \in QueryObserved, timestamp \in QueryTimes,
          tolerance \in QueryTolerances, order \in Orders(active_paths) :
       \E r \in {eliminate_paths(active_paths, path_metadata, actual_price,
                                 timestamp, tolerance, order)} :
          /\ active_paths' = r.active_paths
          /\ path_metadata' = r.path_metadata
          /\ ret' = [raised |-> r.raised, count |-> r.count]
          /\ eliminated_total' =
                 IF r.raised THEN eliminated_total ELSE eliminated_total + r.count[1]
          /\ result' = Returned("eliminate_paths",
                                << actual_price, timestamp, tolerance >>, r.count)
    /\ UNCHANGED << paths, time_index, num_paths, filter_tolerance, data,
                    latest_bars, has_callback, running, update_count,
                    last_update_time, pc, clock, source_failed, delivered,
                    returned, auxVars >>

\* What every query leaves alone: all but result.
QueryFrame ==
    UNCHANGED << popVars, filter_tolerance, data, latest_bars, has_callback,
                 running, update_count, last_update_time, pc, clock,
                 source_failed, delivered, returned, auxVars >>

\* get_path_at_time(path_index, timestamp)
QueryValueAt ==
    /\ \E path_index \in 0 .. num_paths, timestamp \in QueryTimes :
          result' = Returned("get_path_at_time", << path_index, timestamp >>,
                             get_path_at_time(path_index, timestamp))
    /\ QueryFrame

\* get_path_bounds_at_time(timestamp)
QueryBoundsAt ==
    /\ \E timestamp \in QueryTimes :
          result' = Returned("get_path_bounds_at_time", << timestamp >>,
                             get_path_bounds_at_time(active_paths, timestamp))
    /\ QueryFrame

\* get_all_paths_at_time(timestamp)
QueryAllLiveAt ==
    /\ \E timestamp \in QueryTimes :
          result' = Returned("get_all_paths_at_time", << timestamp >>,
                             get_all_paths_at_time(active_paths, timestamp))
    /\ QueryFrame

\* get_statistics()
QueryStatistics ==
    /\ result' = Returned("get_statistics", << >>, get_statistics(active_paths))
    /\ QueryFrame

\* Variant with one slip: the detector takes the live path of the largest
\* index out of the live set as it reads the prices.
QueryDetectZones_consumes ==
    /\ \E timestamp \in QueryTimes, num_bins \in QueryBins,
          min_paths \in QueryMinPaths :
          result' = Returned("detect_zones", << timestamp, num_bins, min_paths >>,
                             detect_zones(active_paths, timestamp, num_bins, min_paths))
    /\ active_paths' = {i \in active_paths : \E j \in active_paths : j > i}
    /\ UNCHANGED << paths, time_index, num_paths, path_metadata, ret,
                    eliminated_total, filter_tolerance, data, latest_bars,
                    has_callback, running, update_count, last_update_time, pc,
                    clock, source_failed, delivered, returned, auxVars >>

\* detect_zones(timestamp, num_bins, min_paths)
QueryDetectZones ==
    /\ \E timestamp \in QueryTimes, num_bins \in QueryBins,
          min_paths \in QueryMinPaths :
          result' = Returned("detect_zones", << timestamp, num_bins, min_paths >>,
                             detect_zones(active_paths, timestamp, num_bins, min_paths))
    /\ QueryFrame

InitQueries == InitPop

NextQueries ==
    \/ QueryEliminate
    \/ QueryValueAt
    \/ QueryBoundsAt
    \/ QueryAllLiveAt
    \/ QueryStatistics
    \/ QueryDetectZones

SpecQueries == InitQueries /\ [][NextQueries]_vars

\* ----------------------------------------------- claims, frame of queries
\* C31: no call changes paths, time_index or num_paths; a call of
\* eliminate_paths changes the live set and the elimination records only;
\* a call of get_path_at_time, get_path_bounds_at_time,
\* get_all_paths_at_time, get_statistics or detect_zones changes neither of
\* these; and detect_zones called again with the same arguments, no other
\* call between, returns what it returned before.
C31_PopulationImmutable ==
    [][/\ paths' = paths /\ time_index' = time_index /\ num_paths' = num_paths
       /\ result'.status # "eliminate_paths" =>
             /\ active_paths' = active_paths
             /\ path_metadata' = path_metadata
       /\ (result'.status = "detect_zones" /\ result'.repeat) =>
             result'.info = result.info]_vars

\* C31 witness: detect_zones was called twice in a row with the same
\* arguments on a population that had lost a path, and returned a zone.
C31_Witness ==
    /\ result.status = "detect_zones" /\ result.repeat
    /\ result.info # << >>
    /\ Cardinality(active_paths) < num_paths

\* -------------------------------------------------- MarketCalendar (code)
\* Calendar instants are counted in half hours of UTC from Monday
\* 2026-01-05 00:00 UTC.  An aware datetime is its wall clock (half hours
\* from Monday 2026-01-05 00:00 on that clock) and the UTC offset its tzinfo
\* carries; the instant it denotes is wall - offset.
DayTicks == 48
Aware(wall, offset) == [wall |-> wall, offset |-> offset]
Utc(d) == d.wall - d.offset

\* pytz.timezone("America/New_York") in 2026: EST (UTC-5) until Sunday
\* 2026-03-08 07:00 UTC, EDT (UTC-4) until Sunday 2026-11-01 06:00 UTC, EST
\* after it.
DstStart == 62 * DayTicks + 14
DstEnd == 300 * DayTicks + 12
ET(utc) == IF utc >= DstStart /\ utc < DstEnd THEN 0 - 8 ELSE 0 - 10

\* date.astimezone(self.ET) of the instant utc.
astimezone(utc) == Aware(utc + ET(utc), ET(utc))

\* datetime.weekday(): Monday is 0.
weekday(d) == (d.wall \div DayTicks) % 7

\* date + timedelta(days=n): the wall clock moves, the tzinfo object stays
\* (pytz attaches the offset in force at the original instant and does not
\* normalize).
PlusDays(d, n) == [d EXCEPT !.wall = @ + n * DayTicks]

\* date.replace(hour=h, minute=m, second=0, microsecond=0), the tzinfo kept.
ReplaceTime(d, hour, minute) ==
    [d EXCEPT !.wall = (@ \div DayTicks) * DayTicks + hour * 2 + minute \div 30]

\* Aware datetimes compare by the instants they denote.
Before(a, b) == Utc(a) < Utc(b)

MARKET_OPEN_HOUR == 9
MARKET_OPEN_MINUTE == 30
MARKET_CLOSE_HOUR == 16
MARKET_CLOSE_MINUTE == 0

\* MarketCalendar.get_weekly_open(date), date an aware datetime of any zone
\* (given by its instant).
get_weekly_open(utc) ==
    LET date == astimezone(utc)
        monday == PlusDays(date, 0 - weekday(date))
        weekly_open == ReplaceTime(monday, MARKET_OPEN_HOUR, MARKET_OPEN_MINUTE)
    IN IF Before(date, weekly_open) THEN PlusDays(weekly_open, 0 - 7)
       ELSE weekly_open

\* MarketCalendar.is_market_open(date)
is_market_open(utc) ==
    LET date == astimezone(utc)
        market_open == ReplaceTime(date, MARKET_OPEN_HOUR, MARKET_OPEN_MINUTE)
        market_close == ReplaceTime(date, MARKET_CLOSE_HOUR, MARKET_CLOSE_MINUTE)
    IN IF weekday(date) >= 5 THEN FALSE
       ELSE ~Before(date, market_open) /\ Before(date, market_close)

\* "while next_day.weekday() >= 5: next_day = next_day + timedelta(days=1)"
RECURSIVE SkipWeekend(_)
SkipWeekend(next_day) ==
    IF weekday(next_day) >= 5 THEN SkipWeekend(PlusDays(next_day, 1)) ELSE next_day

\* MarketCalendar.get_next_market_open(date)
get_next_market_open(utc) ==
    LET date == astimezone(utc)
        today_open == ReplaceTime(date, MARKET_OPEN_HOUR, MARKET_OPEN_MINUTE)
    IN IF Before(date, today_open)
       THEN IF weekday(today_open) < 5 THEN today_open
            ELSE PlusDays(today_open, 7 - weekday(today_open))
       ELSE ReplaceTime(SkipWeekend(PlusDays(date, 1)),
                        MARKET_OPEN_HOUR, MARKET_OPEN_MINUTE)

\* ---------------------------------------- the calendar on its own (state)
\* Reference instants: every half hour within RefDays days of the start of
\* daylight time, of its end, and of Sunday 2026-06-07 07:00 UTC.
RefDays == 3
RefInstants ==
    UNION {(c - RefDays * DayTicks) .. (c + RefDays * DayTicks) :
              c \in {DstStart, DstEnd, 153 * DayTicks + 14}}

InitCalendar ==
    /\ num_paths = 0
    /\ paths = << >>
    /\ time_index = << >>
    /\ active_paths = {}
    /\ path_metadata = NewMetadata(0)
    /\ ret = [raised |-> FALSE, count |-> None]
    /\ eliminated_total = 0
    /\ filter_tolerance = [num |-> 1, den |-> 100]
    /\ data = [tf \in TIMEFRAMES |-> << >>]
    /\ latest_bars = [tf \in TIMEFRAMES |-> None]
    /\ has_callback = FALSE
    /\ running = FALSE
    /\ update_count = 0
    /\ last_update_time = None
    /\ pc = "idle"
    /\ clock = AnchorTime
    /\ \E ref \in RefInstants : result = [status |-> "date", ref |-> ref, info |-> None]
    /\ source_failed = FALSE
    /\ delivered = << >>
    /\ returned = << >>
    /\ AuxIdle

CalendarFrame ==
    UNCHANGED << popVars, filter_tolerance, data, latest_bars, has_callback,
                 running, update_count, last_update_time, pc, clock,
                 source_failed, delivered, returned, auxVars >>

WeeklyOpenCall ==
    /\ result' = [status |-> "get_weekly_open", ref |-> result.ref,
                  info |-> get_weekly_open(result.ref)]
    /\ CalendarFrame

IsMarketOpenCall ==
    /\ result' = [status |-> "is_market_open", ref |-> result.ref,
                  info |-> is_market_open(result.ref)]
    /\ CalendarFrame

NextMarketOpenCall ==
    /\ result' = [status |-> "get_next_market_open", ref |-> result.ref,
                  info |-> get_next_market_open(result.ref)]
    /\ CalendarFrame

NextCalendar == WeeklyOpenCall \/ IsMarketOpenCall \/ NextMarketOpenCall

SpecCalendar == InitCalendar /\ [][NextCalendar]_vars

\* --------------------------------------------------------- claims, calendar
\* The instant utc is a Monday 09:30 on the Eastern clock.
MondayOpen(utc) ==
    /\ weekday(astimezone(utc)) = 0
    /\ astimezone(utc).wall % DayTicks = MARKET_OPEN_HOUR * 2 + MARKET_OPEN_MINUTE \div 30

\* The market is open at utc as the spec defines it: a weekday, and 09:30 or
\* later and before 16:00 on the Eastern clock.
OpenHours(utc) ==
    /\ weekday(astimezone(utc)) < 5
    /\ astimezone(utc).wall % DayTicks >= MARKET_OPEN_HOUR * 2 + MARKET_OPEN_MINUTE \div 30
    /\ astimezone(utc).wall % DayTicks < MARKET_CLOSE_HOUR * 2 + MARKET_CLOSE_MINUTE \div 30

\* C32 (as claimed): get_weekly_open(ref) is a Monday 09:30 Eastern instant,
\* is not after ref, is less than 7 days before ref, and no later Monday
\* 09:30 Eastern is at or before ref.
C32_WeeklyOpen ==
    result.status = "get_weekly_open" =>
        /\ MondayOpen(Utc(result.info))
        /\ Utc(result.info) <= result.ref
        /\ result.ref - Utc(result.info) < 7 * DayTicks
        /\ \A t \in (Utc(result.info) + 1) .. result.ref : ~MondayOpen(t)

\* C33 (as claimed): get_next_market_open(ref) is after ref, the market is
\* open at it, and the market is open at no instant between ref and it.
C33_NextMarketOpen ==
    result.status = "get_next_market_open" =>
        /\ Utc(result.info) > result.ref
        /\ OpenHours(Utc(result.info))
        /\ \A t \in (result.ref + 1) .. (Utc(result.info) - 1) : ~OpenHours(t)

\* ------------------------------------------- GBM, the traditional mode (code)
\* Largest forecast_period of a GBM object in SpecGBM.
MaxForecast == 2

\* A DataFrame of ticker.history: whether it has the price columns, its
\* rows (bars, of which the close is kept) and whether the column
\* 'Daily return' has been added.
Frame(columns, closes) ==
    [columns |-> columns, rows |-> [k \in 1 .. Len(closes) |-> [close |-> closes[k]]],
     daily_return |-> FALSE]

\* What yf.Ticker(...).history(...) does: it raises, or returns pd.DataFrame()
\* (no column), a frame with columns and no row, or a frame with rows.
HistoryOutcomes ==
    {[raised |-> TRUE, frame |-> None]}
        \cup {[raised |-> FALSE, frame |-> Some(Frame(FALSE, << >>))]}
        \cup {[raised |-> FALSE, frame |-> Some(Frame(TRUE, closes))] :
                closes \in {<< >>, << 100 >>, << 100, 102 >>, << 100, 102, 101 >>}}

\* What a call left in result: the method and "returned" or the exception.
Called(method, how) == [status |-> method, info |-> how]

\* The exceptions of the methods, by type and the start of the message.
NoStockPrice == "ValueError: Stock price data not available"
NoMuSigma == "ValueError: Mu and sigma not calculated"
NoBrownian == "ValueError: Brownian motion not calculated"
NoForecast == "ValueError: Forecasted prices not available"
FetchFailed == "ValueError: Error fetching data"

\* What the calls of the GBM object leave alone.
GBMFrame ==
    UNCHANGED << popVars, filter_tolerance, data, latest_bars, has_callback,
                 running, update_count, last_update_time, pc, clock,
                 source_failed, delivered, returned, threadVars, args, history,
                 session, gen >>

\* GBM.fetch_prices: self.stock_price is assigned before the frame is tested
\* for emptiness; every exception leaves as ValueError("Error fetching ...").
fetch_prices ==
    /\ \E fetched \in HistoryOutcomes :
          IF fetched.raised
          THEN /\ gbm' = gbm
               /\ result' = Called("fetch_prices", FetchFailed)
          ELSE IF fetched.frame[1].rows = << >>
          THEN /\ gbm' = [gbm EXCEPT !.stock_price = fetched.frame]
               /\ result' = Called("fetch_prices", FetchFailed)
          ELSE /\ gbm' = [gbm EXCEPT !.stock_price = fetched.frame,
                                     !.int_of_history_period = Some(100)]
               /\ result' = Called("fetch_prices", "returned")
    /\ UNCHANGED np_random
    /\ GBMFrame

\* GBM.calculate_mu_sigma; mu and sigma per day, the annualisation left out,
\* a NaN as None inside the Some.
calculate_mu_sigma ==
    /\ IF gbm.stock_price = None
       THEN /\ gbm' = gbm
            /\ result' = Called("calculate_mu_sigma", NoStockPrice)
       ELSE IF ~gbm.stock_price[1].columns
       THEN /\ gbm' = gbm
            /\ result' = Called("calculate_mu_sigma", "KeyError: 'Close'")
       ELSE \E rs \in {Returns(gbm.stock_price[1].rows)} :
               /\ gbm' = [gbm EXCEPT !.stock_price[1].daily_return = TRUE,
                                     !.mu = Some(IF Len(rs) = 0 THEN None
                                                 ELSE Some(Mean(rs))),
                                     !.sigma = Some(Std(rs))]
               /\ result' = Called("calculate_mu_sigma", "returned")
    /\ UNCHANGED np_random
    /\ GBMFrame

\* np.cumsum(b)
CumSum(b) == [k \in 1 .. Len(b) |-> SumSeq(SubSeq(b, 1, k))]

\* GBM.brownian_motion: np.random.seed(self.seed), then forecast_period
\* values of the process's generator (the factor sqrt(dt) left out).
brownian_motion ==
    /\ \E state \in {[stream |-> gbm.seed, pos |-> 0]} :
          /\ gbm' = [gbm EXCEPT !.W = Some(CumSum(NormalArray(state, gbm.forecast_period)))]
          /\ np_random' = [np_random EXCEPT ![1] = Advance(state, gbm.forecast_period)]
    /\ result' = Called("brownian_motion", "returned")
    /\ GBMFrame

\* self.So * np.exp(drift + diffusion) for the steps 1 .. forecast_period.
Forecast(g, So) ==
    << Price(So) >> \o
    [i \in 1 .. g.forecast_period |->
        IF g.mu[1] = None \/ g.sigma[1] = None THEN NaN
        ELSE Bind(ExpFactor((drift_term(g.mu[1][1], g.sigma[1][1]) * i) \div g.forecast_period
                                + g.sigma[1][1] * g.W[1][i]),
                  LAMBDA f : Ratio(So * f.num, f.den))]

\* Variant with one slip: the Brownian path is tested first.
geometric_brownian_motion_path_first ==
    /\ IF gbm.W = None
       THEN gbm' = gbm /\ result' = Called("geometric_brownian_motion", NoBrownian)
       ELSE IF gbm.stock_price = None
       THEN gbm' = gbm /\ result' = Called("geometric_brownian_motion", NoStockPrice)
       ELSE IF gbm.mu = None \/ gbm.sigma = None
       THEN gbm' = gbm /\ result' = Called("geometric_brownian_motion", NoMuSigma)
       ELSE IF ~gbm.stock_price[1].columns
       THEN gbm' = gbm /\ result' = Called("geometric_brownian_motion", "KeyError: 'Close'")
       ELSE IF gbm.stock_price[1].rows = << >>
       THEN gbm' = gbm /\ result' = Called("geometric_brownian_motion", "IndexError")
       ELSE \E rows \in {gbm.stock_price[1].rows} :
               /\ gbm' = [gbm EXCEPT
                             !.So = Some(rows[Len(rows)].close),
                             !.x_axis = Some([k \in 1 .. gbm.forecast_period + 1 |->
                                                 Len(rows) + k - 1]),
                             !.S = Some(Forecast(gbm, rows[Len(rows)].close))]
               /\ result' = Called("geometric_brownian_motion", "returned")
    /\ UNCHANGED np_random
    /\ GBMFrame

\* GBM.geometric_brownian_motion
geometric_brownian_motion ==
    /\ IF gbm.stock_price = None
       THEN gbm' = gbm /\ result' = Called("geometric_brownian_motion", NoStockPrice)
       ELSE IF gbm.mu = None \/ gbm.sigma = None
       THEN gbm' = gbm /\ result' = Called("geometric_brownian_motion", NoMuSigma)
       ELSE IF gbm.W = None
       THEN gbm' = gbm /\ result' = Called("geometric_brownian_motion", NoBrownian)
       ELSE IF ~gbm.stock_price[1].columns
       THEN gbm' = gbm /\ result' = Called("geometric_brownian_motion", "KeyError: 'Close'")
       ELSE IF gbm.stock_price[1].rows = << >>
       THEN gbm' = gbm /\ result' = Called("geometric_brownian_motion", "IndexError")
       ELSE \E rows \in {gbm.stock_price[1].rows} :
               /\ gbm' = [gbm EXCEPT
                             !.So = Some(rows[Len(rows)].close),
                             !.x_axis = Some([k \in 1 .. gbm.forecast_period + 1 |->
                                                 Len(rows) + k - 1]),
                             !.S = Some(Forecast(gbm, rows[Len(rows)].close))]
               /\ result' = Called("geometric_brownian_motion", "returned")
    /\ UNCHANGED np_random
    /\ GBMFrame

\* GBM.plot: the figure is drawn outside the object.
plot ==
    /\ gbm' = gbm
    /\ IF gbm.S = None \/ gbm.x_axis = None
       THEN result' = Called("plot", NoForecast)
       ELSE IF gbm.stock_price = None
       THEN result' = Called("plot", NoStockPrice)
       ELSE IF ~gbm.stock_price[1].columns
       THEN result' = Called("plot", "KeyError: 'Close'")
       ELSE result' = Called("plot", "returned")
    /\ UNCHANGED np_random
    /\ GBMFrame

InitGBM ==
    /\ NoUpdater
    /\ args = DefaultArgs
    /\ history = [tf \in TIMEFRAMES |-> << >>]
    /\ session = [p \in Procs |-> NoSession]
    /\ gen = [r \in Runs |-> NoGenerator]
    /\ np_random = [p \in Procs |-> None]
    /\ \E forecast_period \in 1 .. MaxForecast, seed \in Seeds :
          gbm = [NoGBM EXCEPT !.forecast_period = forecast_period, !.seed = seed]

NextGBM ==
    \/ fetch_prices
    \/ calculate_mu_sigma
    \/ brownian_motion
    \/ geometric_brownian_motion
    \/ plot

SpecGBM == InitGBM /\ [][NextGBM]_vars

\* --------------------------------------------------- claims, step order
\* The ValueError a call of geometric_brownian_motion must end with in a
\* state, None if it must not end with one.
StepMissing(g) ==
    IF g.stock_price = None THEN Some(NoStockPrice)
    ELSE IF g.mu = None \/ g.sigma = None THEN Some(NoMuSigma)
    ELSE IF g.W = None THEN Some(NoBrownian)
    ELSE None

ValueErrors == {NoStockPrice, NoMuSigma, NoBrownian, NoForecast, FetchFailed}

BarsOf(series) == {series[k] : k \in 1 .. Len(series)}

\* update_latest_bars has just fetched a bar for tf whose timestamp the
\* stored series did not hold.
NewBar(tf) ==
    /\ result'.status = "update_latest_bars"
    /\ latest_bars'[tf] # None
    /\ \A k \in 1 .. Len(data[tf]) :
          data[tf][k].timestamp # latest_bars'[tf][1].timestamp

\* C35 (as claimed): whenever update_latest_bars fetches a bar whose
\* timestamp the stored series of the timeframe does not hold, the series
\* holds the bar afterwards, an empty series included.
C35_AppendsAlways ==
    [][\A tf \in TIMEFRAMES :
          NewBar(tf) => latest_bars'[tf][1] \in BarsOf(data'[tf])]_vars

\* C35 (amended): whenever update_latest_bars fetches a bar whose timestamp
\* the stored series does not hold, a series that holds a bar gains exactly
\* that bar, and an empty series stays empty, the bar being kept as the
\* timeframe's latest bar only.
C35_AppendsToNonEmpty ==
    [][\A tf \in TIMEFRAMES :
          NewBar(tf) =>
              IF data[tf] # << >>
              THEN /\ BarsOf(data'[tf]) = BarsOf(data[tf]) \cup {latest_bars'[tf][1]}
                   /\ Len(data'[tf]) = Len(data[tf]) + 1
              ELSE data'[tf] = << >>]_vars

\* C35 witness: one call brought a bar for the empty 1m series, which is
\* still empty, and a new bar for the 1d series, which has grown.
C35_Witness ==
    /\ result.status = "update_latest_bars"
    /\ data["1m"] = << >> /\ latest_bars["1m"] # None
    /\ Len(data["1d"]) = 2 /\ latest_bars["1d"] # None
    /\ latest_bars["1d"][1] \in BarsOf(data["1d"])

\* ------------------------------------------------- claims, zones by bin
\* The live prices of a population of SpecZones (a path keeps its first
\* price): h[c] is the number of live paths at price 95 + c.
RECURSIVE LiveByPrice(_, _)
LiveByPrice(lo, hi) ==
    IF lo = hi THEN << Cardinality({i \in active_paths : paths[i][0] = 95 + lo}) >>
    ELSE LiveByPrice(lo, (lo + hi) \div 2) \o LiveByPrice((lo + hi) \div 2 + 1, hi)

\* The histogram the spec describes, in units of 1 / (2 * bins) of a price:
\* the lowest and the highest live price, the width of a bin (a range of one
\* price is widened by 0.5 to either side), the lower edge of bin b, the
\* count of bin b (the last bin holds its upper edge) and the largest count.
LowestLive(h) == 95 + CHOOSE c \in 1 .. Len(h) : h[c] > 0 /\ \A d \in 1 .. c - 1 : h[d] = 0
HighestLive(h) == 95 + CHOOSE c \in 1 .. Len(h) : h[c] > 0 /\ \A d \in c + 1 .. Len(h) : h[d] = 0
BinWidth(h) == IF LowestLive(h) = HighestLive(h) THEN 2
               ELSE 2 * (HighestLive(h) - LowestLive(h))
BinEdge(h, b, bins) ==
    (IF LowestLive(h) = HighestLive(h) THEN LowestLive(h) * 2 * bins - bins
     ELSE LowestLive(h) * 2 * bins) + b * BinWidth(h)
InBin(h, c, b, bins) ==
    /\ (95 + c) * 2 * bins >= BinEdge(h, b, bins)
    /\ \/ (95 + c) * 2 * bins < BinEdge(h, b + 1, bins)
       \/ b = bins - 1 /\ (95 + c) * 2 * bins = BinEdge(h, bins, bins)
BinCount(h, b, bins) ==
    SumSeq([c \in 1 .. Len(h) |-> IF InBin(h, c, b, bins) THEN h[c] ELSE 0])
\* The counts of the bins 0 .. bins - 1, as a list.
BinCountsOf(h, bins) == [b \in 1 .. bins |-> BinCount(h, b - 1, bins)]
\* count >= max(min_paths, 0.3 * largest count)
Qualifies(counts, b, min_paths) ==
    /\ counts[b + 1] >= min_paths
    /\ 10 * counts[b + 1] >= 3 * SeqMax(counts)
\* The sum of the live prices.
SumLive(h) == SumSeq([c \in 1 .. Len(h) |-> (95 + c) * h[c]])

\* The zone of bin b in the list zones: the one whose lower edge is the
\* bin's.
ZoneOfBin(h, zones, b, bins) ==
    {k \in 1 .. Len(zones) : zones[k].price_low = BinEdge(h, b, bins)}

\* What detect_zones must return for the live prices h, bins and min_paths.
ZonesAsSpecified(h, zones, bins, min_paths) ==
    IF SumSeq(h) < min_paths THEN zones = << >>
    ELSE \A counts \in {BinCountsOf(h, bins)} :
         \A wanted \in {{b \in 0 .. bins - 1 : Qualifies(counts, b, min_paths)}} :
            /\ Len(zones) = Cardinality(wanted)
            /\ \A b \in (0 .. bins - 1) \ wanted : ZoneOfBin(h, zones, b, bins) = {}
            /\ \A b \in wanted :
                  \E k \in 1 .. Len(zones) :
                     /\ ZoneOfBin(h, zones, b, bins) = {k}
                     /\ zones[k].price_high = BinEdge(h, b + 1, bins)
                     /\ 2 * zones[k].price_level =
                            BinEdge(h, b, bins) + BinEdge(h, b + 1, bins)
                     /\ zones[k].path_count = counts[b + 1]
                     /\ zones[k].probability =
                            [num |-> counts[b + 1], den |-> SumSeq(h)]
                     /\ zones[k].zone_type =
                            IF zones[k].price_level * SumSeq(h) < SumLive(h) * 2 * bins
                            THEN "support"
                            ELSE IF zones[k].price_level * SumSeq(h)
                                        > SumLive(h) * 2 * bins
                            THEN "resistance" ELSE "convergence"

\* C36: a call of detect_zones (a step that changes result and leaves the
\* population alone) returns the empty list when fewer than min_paths paths
\* are live, and else one zone for every bin whose count is at least
\* min_paths and at least 0.3 of the largest count, none for any other bin;
\* the zone's probability is the bin's count over the number of live
\* prices and its label compares the bin's midpoint with their mean.
C36_ZonesByBin ==
    [][(popVars' = popVars /\ result' # result) =>
          \A h \in {LiveByPrice(1, 7)} :
             ZonesAsSpecified(h, result'.info, result'.num_bins, result'.min_paths)]_vars

\* C36 witness: detect_zones returned a support and a resistance zone and
\* left out a bin that holds a live price.
C36_Witness ==
    /\ result.status = "zones" /\ Len(result.info) = 3
    /\ {result.info[k].zone_type : k \in 1 .. 3}
           = {"support", "resistance", "convergence"}
    /\ \E k \in 1 .. 3 : result.info[k].path_count < result.info[1].path_count

\* --------------------------------- get_convergence_zones on its own (code)
\* future_prices in ascending order (np.percentile sorts its argument).
RECURSIVE InsertAscending(_, _, _)
InsertAscending(sorted, k, price) ==
    IF k > Len(sorted) THEN Append(sorted, price)
    ELSE IF price < sorted[k]
    THEN SubSeq(sorted, 1, k - 1) \o << price >> \o SubSeq(sorted, k, Len(sorted))
    ELSE InsertAscending(sorted, k + 1, price)

RECURSIVE SortAscending(_, _, _)
SortAscending(sorted, prices, k) ==
    IF k > Len(prices) THEN sorted
    ELSE Bind(InsertAscending(sorted, 1, prices[k]),
              LAMBDA longer : SortAscending(longer, prices, k + 1))

\* np.percentile(future_prices, q), linear interpolation between the two
\* order statistics around position q / 100 * (n - 1), in hundredths of a
\* price tick; sorted is future_prices in ascending order.
Percentile(sorted, q) ==
    Bind(q * (Len(sorted) - 1),
         LAMBDA pos :
            IF pos % 100 = 0 THEN 100 * sorted[pos \div 100 + 1]
            ELSE 100 * sorted[pos \div 100 + 1]
                    + (pos % 100) * (sorted[pos \div 100 + 2] - sorted[pos \div 100 + 1]))

\* percentiles = [10, 25, 50, 75, 90]
Percentiles == << 10, 25, 50, 75, 90 >>

\* np.sum((future_prices >= p_low) & (future_prices <= p_high))
InRange(sorted, i, p_low, p_high) ==
    Cardinality({k \in 1 .. Len(sorted) :
                    100 * sorted[k] >= p_low /\ 100 * sorted[k] <= p_high})

\* The loop "for i in range(len(percentiles) - 1)" from bucket i on (i counts
\* from 1 here).  price_low and price_high are in hundredths of a price tick,
\* price_level in two-hundredths.
RECURSIVE BucketZones(_, _, _)
BucketZones(sorted, i, future_minutes) ==
    IF i > Len(Percentiles) - 1 THEN << >>
    ELSE Bind(<< Percentile(sorted, Percentiles[i]),
                 Percentile(sorted, Percentiles[i + 1]) >>,
              LAMBDA p :
                 Bind(InRange(sorted, i, p[1], p[2]),
                      LAMBDA count :
                         (IF count > 0
                          THEN << [price_level |-> p[1] + p[2],
                                   price_low |-> p[1],
                                   price_high |-> p[2],
                                   probability |-> [num |-> count, den |-> Len(sorted)],
                                   path_count |-> count,
                                   zone_type |-> "convergence",
                                   time_horizon_minutes |-> future_minutes] >>
                          ELSE << >>)
                            \o BucketZones(sorted, i + 1, future_minutes)))

\* zones[:num_zones]
Slice(zones, num_zones) ==
    IF num_zones >= Len(zones) THEN zones
    ELSE IF num_zones >= 0 THEN SubSeq(zones, 1, num_zones)
    ELSE IF Len(zones) + num_zones > 0 THEN SubSeq(zones, 1, Len(zones) + num_zones)
    ELSE << >>

\* ReversalZoneDetector.get_convergence_zones on live set act.
get_convergence_zones(act, future_minutes, num_zones) ==
    IF act = {} THEN << >>
    ELSE Bind(time_index[Cardinality(DOMAIN time_index) - 1]
                  + future_minutes * MinuteTicks,
              LAMBDA future_time :
                 IF get_path_bounds_at_time(act, future_time) = None THEN << >>
                 ELSE Bind(get_all_paths_at_time(act, future_time),
                           LAMBDA future_prices :
                              IF Len(future_prices) < 10 THEN << >>
                              ELSE Bind(BucketZones(SortAscending(<< >>, future_prices, 1),
                                                    1, future_minutes),
                                        LAMBDA zones :
                                           Slice(SortByProbability(<< >>, zones, 1),
                                                 num_zones))))

\* Populations for the call: n paths that leave the anchor price 100 and
\* spread by one tick a minute, path i going to 100 + s * (i - n \div 2).
\* The grid has the steps 0 .. ConvergeLast.
ConvergeSizes == {9, 10, 13}
ConvergeLast == Horizon + 1
ConvergePaths(n) ==
    [i \in 0 .. n - 1 |-> [s \in 0 .. ConvergeLast |-> 100 + s * (i - n \div 2)]]

\* The arguments of the calls.
FutureMinutes == 0 .. ConvergeLast
NumZones == {0, 2, 4, 5}

InitConverge ==
    /\ \E n \in ConvergeSizes :
          /\ num_paths = n
          /\ paths = ConvergePaths(n)
    /\ time_index = DateRange(AnchorTime, ConvergeLast + 1)
    /\ active_paths = 0 .. num_paths - 1
    /\ path_metadata = NewMetadata(num_paths)
    /\ ret = [raised |-> FALSE, count |-> None]
    /\ eliminated_total = 0
    /\ filter_tolerance = [num |-> 1, den |-> 100]
    /\ data = [tf \in TIMEFRAMES |-> << >>]
    /\ latest_bars = [tf \in TIMEFRAMES |-> None]
    /\ has_callback = FALSE
    /\ running = FALSE
    /\ update_count = 0
    /\ last_update_time = None
    /\ pc = "idle"
    /\ clock = AnchorTime
    /\ result = [status |-> "none", info |-> None]
    /\ source_failed = FALSE
    /\ delivered = << >>
    /\ returned = << >>
    /\ AuxIdle

\* A minute passes.
ConvergeTick ==
    /\ clock < AnchorTime + ConvergeLast * MinuteTicks
    /\ clock' = clock + MinuteTicks
    /\ UNCHANGED << popVars, filter_tolerance, data, latest_bars, has_callback,
                    running, update_count, last_update_time, pc, result,
                    source_failed, delivered, returned, auxVars >>

\* eliminate_paths at the clock's instant, with an observed price and a
\* tolerance of 3%.
ConvergeEliminate ==
    /\ \E actual_price \in {98, 103}, tolerance \in {[num |-> 3, den |-> 100]} :
       \E r \in {eliminate_paths(active_paths, path_metadata, actual_price,
                                 clock, tolerance, AscendingOrder(active_paths))} :
          /\ active_paths' = r.active_paths
          /\ path_metadata' = r.path_metadata
          /\ ret' = [raised |-> r.raised, count |-> r.count]
          /\ eliminated_total' =
                 IF r.raised THEN eliminated_total ELSE eliminated_total + r.count[1]
    /\ UNCHANGED << paths, time_index, num_paths, liveVars, auxVars >>

\* get_convergence_zones(future_minutes, num_zones); result keeps the
\* arguments, the clock of the call and the list returned.
ConvergeZones ==
    /\ \E future_minutes \in FutureMinutes, num_zones \in NumZones :
       \E zones \in {get_convergence_zones(active_paths, future_minutes, num_zones)} :
          result' = [status |-> "convergence", future_minutes |-> future_minutes,
                     num_zones |-> num_zones, now |-> clock, info |-> zones]
    /\ UNCHANGED << popVars, filter_tolerance, data, latest_bars, has_callback,
                    running, update_count, last_update_time, pc, clock,
                    source_failed, delivered, returned, auxVars >>

NextConverge == ConvergeTick \/ ConvergeEliminate \/ ConvergeZones

SpecConverge == InitConverge /\ [][NextConverge]_vars

\* ------------------------------------------------ claims, convergence zones
\* The number of prices of sample between the percentiles of bucket j, ends
\* included.
BucketDensity(sorted, j) ==
    Cardinality({k \in 1 .. Len(sorted) :
                    /\ 100 * sorted[k] >= Percentile(sorted, Percentiles[j])
                    /\ 100 * sorted[k] <= Percentile(sorted, Percentiles[j + 1])})

\* zone is the zone of bucket j of the sample.
ZoneOfBucket(zone, sorted, density, j) ==
    /\ zone.price_low = Percentile(sorted, Percentiles[j])
    /\ zone.price_high = Percentile(sorted, Percentiles[j + 1])
    /\ zone.probability = [num |-> density[j], den |-> Len(sorted)]

\* What get_convergence_zones must return for the sampled prices and K.
ConvergenceAsSpecified(sample, zones, K) ==
    IF Len(sample) < 10 THEN zones = << >>
    ELSE \A sorted \in {SortAscending(<< >>, sample, 1)} :
         \A density \in {[j \in 1 .. 4 |-> BucketDensity(sorted, j)]} :
            /\ Len(zones) = IF K < 4 THEN K ELSE 4
            /\ \A k \in 1 .. Len(zones) :
                  /\ zones[k].zone_type = "convergence"
                  /\ \E j \in 1 .. 4 : ZoneOfBucket(zones[k], sorted, density, j)
            /\ \A k \in 1 .. Len(zones) - 1 :
                  zones[k].probability.num >= zones[k + 1].probability.num
            /\ \A j \in 1 .. 4 :
                  \/ \E k \in 1 .. Len(zones) : ZoneOfBucket(zones[k], sorted, density, j)
                  \/ \A k \in 1 .. Len(zones) : density[j] <= zones[k].probability.num

\* C37 (as claimed): a call of get_convergence_zones(F, K) at a moment whose
\* instant F minutes later is on the grid returns the zones of the live prices
\* at that instant: none for fewer than 10 prices, else the top K of four
\* zones, one per pair of neighbouring percentiles of 10, 25, 50, 75, 90, each
\* labeled convergence, in descending order of probability.
C37_ConvergenceZones ==
    [][(popVars' = popVars /\ result' # result
            /\ result'.now + result'.future_minutes * MinuteTicks
                   <= AnchorTime + ConvergeLast * MinuteTicks) =>
          \A sample \in {get_all_paths_at_time(active_paths,
                            result'.now + result'.future_minutes * MinuteTicks)} :
             ConvergenceAsSpecified(sample, result'.info, result'.num_zones)]_vars

\* ------------------------------------------- claims, elimination records
\* The records and the live set agree: a path is marked eliminated exactly
\* when it is not live, a dead path has a timestamp and a live path none.
RecordsAgree(act, meta) ==
    \A i \in 0 .. num_paths - 1 :
        /\ meta[i].eliminated <=> i \notin act
        /\ meta[i].eliminated_at # None <=> i \notin act

\* C38: before and after every call the elimination records agree with the
\* live set; the call leaves the record of every path that was dead alone, and
\* a path the call removes gets the timestamp of that call.
C38_RecordsFollowLiveSet ==
    [][/\ RecordsAgree(active_paths, path_metadata)
       /\ RecordsAgree(active_paths', path_metadata')
       /\ \A i \in (0 .. num_paths - 1) \ active_paths :
             path_metadata'[i] = path_metadata[i]
       /\ \A i \in active_paths \ active_paths' :
             /\ result'.status = "eliminate_paths"
             /\ path_metadata'[i].eliminated_at = Some(result'.args[2])]_vars

\* Two paths removed by calls with different timestamps, the last call an
\* eliminate_paths with a timestamp that is not the one of the first record.
C38_Witness ==
    /\ result.status = "eliminate_paths"
    /\ \E i, j \in (0 .. num_paths - 1) \ active_paths :
          /\ path_metadata[i].eliminated_at # path_metadata[j].eliminated_at
          /\ path_metadata[i].eliminated_at # Some(result.args[2])
          /\ path_metadata[j].eliminated_at = Some(result.args[2])

\* ------------------------------------------------ claims, start() returning
\* C39: once stop() has been called on a running updater, start() returns:
\* from inside a cycle the loop goes on to the sleep, whether update()
\* returned or raised, from the sleep to the loop test and from there out of
\* start(), and, the loop's thread being scheduled, it gets there.
C39_StartReturns ==
    /\ [][(StopRequested /\ pc = "cycle") => pc' \in {"cycle", "sleep"}]_vars
    /\ [][(StopRequested /\ pc = "sleep") => pc' \in {"sleep", "loop"}]_vars
    /\ [][(StopRequested /\ pc = "loop") => pc' \in {"loop", "returned"}]_vars
    /\ [][(StopRequested /\ pc = "cycle" /\ pc' = "sleep") =>
              outcome'["loop"] \in {"ok", "no_data", "raised"}]_vars
    /\ (StopRequested /\ pc \in {"cycle", "sleep"}) ~> (pc = "returned")

\* C39 witness: stop() came while the loop was inside a cycle, that cycle
\* raised, and start() has returned.
C39_Witness ==
    /\ pc = "returned"
    /\ stop_point # None /\ stop_point[1].pc = "cycle"
    /\ outcome["loop"] = "raised" /\ caught >= 1

\* ------------------------------------------------ claims, counting cycles
\* A step in which update() is called: by the loop, which goes on to its
\* sleep, or by run_single_update, after which the clock has moved on.
CycleStarted ==
    \/ pc = "loop" /\ pc' = "sleep"
    \/ pc \in {"idle", "returned"} /\ pc' = pc /\ clock' # clock

\* C40: update_count is 0 before the first cycle, every cycle advances it by
\* exactly one, whether it returns a data snapshot, returns no_data or raises,
\* and nothing else changes it; a data snapshot carries the count of its own
\* cycle, so the counts of the snapshots emitted never repeat, and a cycle
\* without a snapshot leaves a gap in them.
C40_CountsCyclesStarted ==
    /\ update_count = 0
    /\ [][IF CycleStarted
          THEN /\ update_count' = update_count + 1
               /\ result'.status \in {"ok", "no_data", "raised"}
               /\ IF result'.status = "ok"
                  THEN /\ result'.info[1].update_count = update_count'
                       /\ returned' = Append(returned, update_count')
                  ELSE returned' = returned
          ELSE update_count' = update_count /\ returned' = returned]_vars
    /\ [](\A j, k \in 1 .. Len(returned) : j # k => returned[j] # returned[k])

\* C40 witness: a no_data cycle, a cycle with a data snapshot and a cycle that
\* raised: one snapshot, numbered above 1 and below the count.
C40_Witness ==
    /\ result.status = "raised"
    /\ Len(returned) = 1 /\ returned[1] > 1
    /\ update_count > returned[1]

====
